---------------------------- MODULE Spec2Model ----------------------------
(***************************************************************************)
(* A model of the scheduling core of the tutor plugin:                     *)
(*   - the spaced-repetition system  (server/learning/spaced_repetition.py)*)
(*   - the knowledge graph           (server/learning/knowledge_graph.py)  *)
(*   - the study planner             (server/learning/study_planner.py,    *)
(*                                    server/learning/university_context.py)*)
(*   - the prerequisite manager      (server/learning/prerequisites.py)    *)
(*   - the recommendation engine     (server/learning/recommendations.py)  *)
(*                                                                         *)
(* Conventions.                                                            *)
(*   Time is counted in ticks, TicksPerDay ticks to a day; datetime.now()  *)
(*   reads the variable now, and a handler runs at one instant.            *)
(*   Calendar dates are day numbers; day 0 is a Monday, so the weekday of  *)
(*   day d is d % 7 (0 = mon .. 6 = sun), as date.weekday() counts them.   *)
(*   The easiness factor is kept in hundredths (2.5 is 250).               *)
(*   Study time is kept in minutes (estimated_hours * 60).                 *)
(*   Python dicts and lists are sequences, in insertion order.             *)
(***************************************************************************)
EXTENDS Integers, Sequences, FiniteSets, TLC

VARIABLES
    \* ---- SpacedRepetitionSystem
    now,            \* the clock, in ticks
    items,          \* self.items: the ReviewItems, in insertion order
    srsResult,      \* what the last SRS call returned or raised
    \* ---- KnowledgeGraph
    topics,         \* self.topics: topic_id -> Topic
    edges,          \* self.edges: the Prerequisite list
    adjacency,      \* self._adjacency: topic -> [prerequisite topics]
    reverse_adjacency, \* self._reverse_adjacency: topic -> [dependents]
    graphResult,    \* what the last graph query returned
    \* ---- StudyPlanner
    config,         \* self.config: exams, syllabus_units, learner_profile
    topic_status,   \* self.topic_status: unit id -> TopicStatus
    current_plan,   \* self._current_plan
    planResult,     \* what the last generate_plan call returned or raised
    adjustResult,   \* what the last adjust_plan or mark_session_complete
                    \* call returned or raised
    \* ---- PrerequisiteManager
    prerequisites,  \* self.prerequisites: target topic -> [Prerequisite]
    progress,       \* self.progress["modules"]: module id -> status
    readinessResult, \* what the last check_readiness call returned
    \* ---- RecommendationEngine
    engine,         \* the constructor's arguments: progress, curriculum,
                    \* skill_gaps, srs_due_items
    recResult       \* what the last get_recommendations or get_next_action
                    \* call returned

srsVars   == <<now, items, srsResult>>
graphVars == <<topics, edges, adjacency, reverse_adjacency, graphResult>>
planVars  == <<config, topic_status, current_plan, planResult, adjustResult>>
prereqVars == <<prerequisites, progress, readinessResult>>
recVars   == <<engine, recResult>>
vars      == <<srsVars, graphVars, planVars, prereqVars, recVars>>

None == "None"
\* an Optional[datetime] that is None
NoTime == 0 - 1

Max(a, b) == IF a >= b THEN a ELSE b
Min(a, b) == IF a <= b THEN a ELSE b

\* the elements of a sequence
Range(s) == {s[i] : i \in DOMAIN s}

(***************************************************************************)
(*                        Spaced repetition (SM-2)                         *)
(***************************************************************************)

\* ---- bounds of the SRS model
ItemIds == {"i1", "i2"}
\* record_review is offered every quality in -QualityMargin .. 5 + QualityMargin
QualityMargin == 1
Qualities == (0 - QualityMargin)..(5 + QualityMargin)
\* no more than MaxReviews reviews are recorded in a run
MaxReviews == 3
\* the qualities of the reviews of i1 that an earlier session recorded and
\* saved (see SRSInit): eight reviews of quality 3 bring the easiness factor
\* from 2.5 down to 1.38, one step above the floor
SavedQualities == <<3, 3, 3, 3, 3, 3, 3, 3>>
\* the clock stops at MaxNow ticks
MaxNow == 2

\* ---- program constants
TicksPerDay == 2
\* ReviewItem.easiness_factor default 2.5, in hundredths
InitialEasiness == 250
\* the floor max(1.3, ...), in hundredths
EasinessFloor == 130
InitialInterval == 1

\* timedelta(days=d)
Days(d) == d * TicksPerDay

\* The ReviewItem add_item constructs: the dataclass defaults, due immediately.
NewItem(item_id, t) ==
    [item_id          |-> item_id,
     easiness_factor  |-> InitialEasiness,
     interval_days    |-> InitialInterval,
     repetition_count |-> 0,
     last_review      |-> NoTime,
     next_review      |-> t,
     total_reviews    |-> 0,
     correct_reviews  |-> 0]

\* item_id in self.items
Registered(item_id) == \E i \in DOMAIN items : items[i].item_id = item_id

\* the position of self.items[item_id]
IndexOf(item_id) == CHOOSE i \in DOMAIN items : items[i].item_id = item_id

\* self.items[item_id]
Item(item_id) == items[IndexOf(item_id)]

\* The quality taken as given.
ClampNone(quality) == quality

\* quality = max(0, min(5, quality))
Clamp(quality) == Max(0, Min(5, quality))

\* The easiness update without its floor.
UpdateEasinessNoFloor(E, q) ==
    E + (10 - (5 - q) * (8 + (5 - q) * 2))

\* easiness_factor = max(1.3, E + (0.1 - (5 - q) * (0.08 + (5 - q) * 0.02)))
UpdateEasiness(E, q) ==
    Max(EasinessFloor, E + (10 - (5 - q) * (8 + (5 - q) * 2)))

\* The product rounded down instead of up.
FloorProduct(I, E) == {(I * E) \div 100}

\* math.ceil(I * E) in binary floating point. E is a sum of rounded doubles,
\* so when I * E is an integer in exact arithmetic the double product may lie
\* just above it and ceil then yields the next integer (50 * 3.0000000000000004
\* gives 151): both outcomes are kept.
CeilProduct(I, E) ==
    IF (I * E) % 100 = 0
    THEN {(I * E) \div 100, (I * E) \div 100 + 1}
    ELSE {(I * E) \div 100 + 1}

\* The interval update with the first two steps exchanged.
UpdateIntervalSwapped(n, I, E) ==
    IF n = 0 THEN {6}
    ELSE IF n = 1 THEN {1}
    ELSE CeilProduct(I, E)

\* The values interval_days can take on a successful review (n the repetition
\* count before it, E the updated easiness).
UpdateInterval(n, I, E) ==
    IF n = 0 THEN {1}
    ELSE IF n = 1 THEN {6}
    ELSE CeilProduct(I, E)

\* The failure branch without the interval reset.
FailureResetKeepsInterval(item) ==
    [item EXCEPT !.repetition_count = 0]

\* quality < 3: reset on failure
FailureReset(item) ==
    [item EXCEPT !.repetition_count = 0, !.interval_days = 1]

\* The items a review of quality q (clamped) at time t can leave in place of
\* item: counters, SM-2 update, next_review.
Reviewed(item, q, t) ==
    LET counted == [item EXCEPT
                        !.total_reviews = @ + 1,
                        !.last_review = t,
                        !.correct_reviews = IF q >= 3 THEN @ + 1 ELSE @]
        updated ==
            IF q < 3
            THEN {FailureReset(counted)}
            ELSE LET E == UpdateEasiness(counted.easiness_factor, q)
                 IN  {[counted EXCEPT
                          !.easiness_factor = E,
                          !.interval_days = I,
                          !.repetition_count = @ + 1] :
                      I \in UpdateInterval(counted.repetition_count,
                                           counted.interval_days, E)}
    IN  {[u EXCEPT !.next_review = t + Days(u.interval_days)] : u \in updated}

\* SpacedRepetitionSystem.add_item
add_item(item_id) ==
    /\ items' = IF Registered(item_id)
                THEN items
                ELSE Append(items, NewItem(item_id, now))
    /\ srsResult' = [op |-> "add_item", item_id |-> item_id, quality |-> 0,
                     status |-> "ok", at |-> now, before |-> <<>>]
    /\ UNCHANGED now

\* record_review on an unknown id, creating the item instead of raising.
record_review_upsert(item_id, quality) ==
    LET q == Clamp(quality) IN
    IF ~Registered(item_id)
    THEN /\ items' = Append(items, NewItem(item_id, now))
         /\ srsResult' = [op |-> "record_review", item_id |-> item_id,
                          quality |-> quality, status |-> "ok",
                          at |-> now, before |-> <<>>]
         /\ UNCHANGED now
    ELSE /\ \E r \in Reviewed(Item(item_id), q, now) :
                items' = [items EXCEPT ![IndexOf(item_id)] = r]
         /\ srsResult' = [op |-> "record_review", item_id |-> item_id,
                          quality |-> quality, status |-> "ok",
                          at |-> now, before |-> <<Item(item_id)>>]
         /\ UNCHANGED now

\* SpacedRepetitionSystem.record_review
record_review(item_id, quality) ==
    LET q == Clamp(quality) IN
    IF ~Registered(item_id)
    THEN \* raise ValueError(f"Item {item_id} not found")
         /\ srsResult' = [op |-> "record_review", item_id |-> item_id,
                          quality |-> quality, status |-> "ValueError",
                          at |-> now, before |-> <<>>]
         /\ UNCHANGED <<items, now>>
    ELSE /\ \E r \in Reviewed(Item(item_id), q, now) :
                items' = [items EXCEPT ![IndexOf(item_id)] = r]
         /\ srsResult' = [op |-> "record_review", item_id |-> item_id,
                          quality |-> quality, status |-> "ok",
                          at |-> now, before |-> <<Item(item_id)>>]
         /\ UNCHANGED now

\* Time passes.
Tick ==
    /\ now < MaxNow
    /\ now' = now + 1
    /\ UNCHANGED <<items, srsResult>>

\* ---- get_due_items
\* the items of the review queue model
DueItemIds == {"i1", "i2", "i3"}
\* get_due_items is offered every limit in 0 .. MaxLimit
MaxLimit == Cardinality(DueItemIds) + 1
\* the reviews offered before the queue is read
DueQualities == {3, 5}
\* no more than MaxDueReviews reviews are recorded before the queue is read
MaxDueReviews == 2
\* the clock of the queue model stops after two days
MaxDueNow == 2 * TicksPerDay

\* ReviewItem.is_due at time t
is_due(item, t) ==
    IF item.next_review = NoTime THEN TRUE ELSE t >= item.next_review

\* ReviewItem.days_until_due at time t: timedelta.days, the floor of the
\* difference in days, negative when overdue
days_until_due(item, t) ==
    IF item.next_review = NoTime THEN 0
    ELSE IF item.next_review >= t
         THEN (item.next_review - t) \div TicksPerDay
         ELSE 0 - ((t - item.next_review + TicksPerDay - 1) \div TicksPerDay)

\* The sort key with the easiness factor first.
DueKeyLessEasinessFirst(a, b, t) ==
    \/ a.easiness_factor < b.easiness_factor
    \/ /\ a.easiness_factor = b.easiness_factor
       /\ days_until_due(a, t) < days_until_due(b, t)

\* (a.days_until_due, a.easiness_factor) < (b.days_until_due, b.easiness_factor)
DueKeyLess(a, b, t) ==
    \/ days_until_due(a, t) < days_until_due(b, t)
    \/ /\ days_until_due(a, t) = days_until_due(b, t)
       /\ a.easiness_factor < b.easiness_factor

\* due.sort(key=...): a stable sort, equal keys keep the order of self.items
RECURSIVE SortDue(_, _)
SortDue(due, t) ==
    IF due = <<>> THEN <<>>
    ELSE LET rest == SortDue(SubSeq(due, 1, Len(due) - 1), t)
             x == due[Len(due)]
             NotAfter(a) == ~DueKeyLess(x, a, t)
             After(a) == DueKeyLess(x, a, t)
         IN  SelectSeq(rest, NotAfter) \o <<x>> \o SelectSeq(rest, After)

\* SpacedRepetitionSystem.get_due_items, limit >= 0
get_due_items(limit) ==
    LET IsDue(item) == is_due(item, now)
        due == SortDue(SelectSeq(items, IsDue), now)
    IN  /\ srsResult' = [op |-> "get_due_items", limit |-> limit, at |-> now,
                         due |-> SubSeq(due, 1, Min(limit, Len(due)))]
        /\ UNCHANGED <<now, items>>

\* Time passes, up to the given tick.
TickUntil(last) ==
    /\ now < last
    /\ now' = now + 1
    /\ UNCHANGED <<items, srsResult>>

\* the reviews recorded so far
RECURSIVE SumReviews(_)
SumReviews(s) ==
    IF s = <<>> THEN 0 ELSE Head(s).total_reviews + SumReviews(Tail(s))

\* An item after the reviews of qualities qs, all recorded at time t (of a
\* floating-point ceiling with two outcomes, the exact one).
RECURSIVE Replay(_, _, _)
Replay(item, qs, t) ==
    IF qs = <<>> THEN item
    ELSE LET rs == Reviewed(item, Clamp(Head(qs)), t)
             r  == CHOOSE x \in rs :
                      \A y \in rs : x.interval_days <= y.interval_days
         IN  Replay(r, Tail(qs), t)

\* The item an earlier session saved: i1, added and reviewed SavedQualities
\* one day ago.
SavedItem ==
    Replay(NewItem("i1", 0 - Days(1)), SavedQualities, 0 - Days(1))

(***************************************************************************)
(*                            Knowledge graph                              *)
(***************************************************************************)

\* ---- bounds of the graph model
TopicIds == {"A", "B", "C"}
\* the difficulties add_topic is offered (Topic.difficulty is 1-5)
Difficulties == {1, 2}
\* the relation types add_prerequisite is offered: the dataclass default
RelationTypes == {"prerequisite"}
\* no more than MaxEdges add_prerequisite calls in a run
MaxEdges == 2
\* the relation types offered where the kind of an edge matters
EdgeKinds == {"prerequisite", "related"}

\* ---- program constants
\* Topic.estimated_minutes default
DefaultMinutes == 30
\* Topic.difficulty default
DefaultDifficulty == 1
\* priority() of an id that is not a topic: (5, 60)
UnknownDifficulty == 5
UnknownMinutes == 60

\* d.get(k, [])
Get(d, k) == IF k \in DOMAIN d THEN d[k] ELSE <<>>

\* d with d[k] = [] added when k is no key of d
WithKey(d, k) == IF k \in DOMAIN d THEN d ELSE d @@ (k :> <<>>)

\* d[k].append(x), the key created when missing
AppendTo(d, k, x) ==
    LET e == WithKey(d, k) IN [e EXCEPT ![k] = Append(@, x)]

\* KnowledgeGraph.add_topic
add_topic(topic_id, difficulty) ==
    /\ topics' = IF topic_id \in DOMAIN topics
                 THEN [topics EXCEPT ![topic_id] =
                          [difficulty |-> difficulty,
                           estimated_minutes |-> DefaultMinutes]]
                 ELSE topics @@ (topic_id :>
                          [difficulty |-> difficulty,
                           estimated_minutes |-> DefaultMinutes])
    /\ adjacency' = WithKey(adjacency, topic_id)
    /\ reverse_adjacency' = WithKey(reverse_adjacency, topic_id)
    /\ graphResult' = <<>>
    /\ UNCHANGED edges

\* add_prerequisite without the update of the dependents index.
add_prerequisite_one_way(from_topic, to_topic, relation_type) ==
    /\ edges' = Append(edges, [from_topic |-> from_topic,
                               to_topic |-> to_topic,
                               relation_type |-> relation_type])
    /\ adjacency' = AppendTo(adjacency, to_topic, from_topic)
    /\ graphResult' = <<>>
    /\ UNCHANGED <<topics, reverse_adjacency>>

\* KnowledgeGraph.add_prerequisite
add_prerequisite(from_topic, to_topic, relation_type) ==
    /\ edges' = Append(edges, [from_topic |-> from_topic,
                               to_topic |-> to_topic,
                               relation_type |-> relation_type])
    /\ adjacency' = AppendTo(adjacency, to_topic, from_topic)
    /\ reverse_adjacency' = AppendTo(reverse_adjacency, from_topic, to_topic)
    /\ graphResult' = <<>>
    /\ UNCHANGED topics

\* The breadth-first loop of get_prerequisites / get_dependents over adj:
\* pop the head, skip it when visited, else record it and queue its neighbours.
RECURSIVE BFS(_, _, _, _)
BFS(adj, queue, visited, result) ==
    IF queue = <<>> THEN result
    ELSE LET current == Head(queue) IN
         IF current \in visited
         THEN BFS(adj, Tail(queue), visited, result)
         ELSE BFS(adj, Tail(queue) \o Get(adj, current),
                  visited \cup {current}, Append(result, current))

\* KnowledgeGraph.get_prerequisites
get_prerequisites(topic_id, recursive) ==
    IF topic_id \notin DOMAIN adjacency THEN <<>>
    ELSE IF ~recursive THEN adjacency[topic_id]
    ELSE BFS(adjacency, Get(adjacency, topic_id), {}, <<>>)

\* KnowledgeGraph.get_dependents
get_dependents(topic_id, recursive) ==
    IF topic_id \notin DOMAIN reverse_adjacency THEN <<>>
    ELSE IF ~recursive THEN reverse_adjacency[topic_id]
    ELSE BFS(reverse_adjacency, Get(reverse_adjacency, topic_id), {}, <<>>)

\* a call of get_prerequisites, its list returned
query_prerequisites(topic_id, recursive) ==
    /\ graphResult' = <<[op |-> "get_prerequisites", topic_id |-> topic_id,
                         recursive |-> recursive,
                         result |-> get_prerequisites(topic_id, recursive)]>>
    /\ UNCHANGED <<topics, edges, adjacency, reverse_adjacency>>

\* a call of get_dependents, its list returned
query_dependents(topic_id, recursive) ==
    /\ graphResult' = <<[op |-> "get_dependents", topic_id |-> topic_id,
                         recursive |-> recursive,
                         result |-> get_dependents(topic_id, recursive)]>>
    /\ UNCHANGED <<topics, edges, adjacency, reverse_adjacency>>

\* {t: [] for t in self.topics}
EmptyIndex == [t \in DOMAIN topics |-> <<>>]

\* _rebuild_adjacency, the loop over the first n edges
RECURSIVE RebuiltFrom(_)
RebuiltFrom(n) ==
    IF n = 0
    THEN [adjacency |-> EmptyIndex, reverse_adjacency |-> EmptyIndex]
    ELSE LET before == RebuiltFrom(n - 1)
             edge == edges[n]
         IN  [adjacency |->
                  AppendTo(before.adjacency, edge.to_topic, edge.from_topic),
              reverse_adjacency |->
                  AppendTo(before.reverse_adjacency, edge.from_topic,
                           edge.to_topic)]

\* A new session: __init__ calls _load, which reads the topics and edges that
\* _save wrote and calls _rebuild_adjacency.
rebuild_adjacency ==
    /\ adjacency' = RebuiltFrom(Len(edges)).adjacency
    /\ reverse_adjacency' = RebuiltFrom(Len(edges)).reverse_adjacency
    /\ graphResult' = <<[op |-> "_rebuild_adjacency"]>>
    /\ UNCHANGED <<topics, edges>>

\* get_learning_path: the set `required`
Required(target_topics, completed) ==
    UNION {IF target \in completed THEN {}
           ELSE {target} \cup
                (Range(get_prerequisites(target, TRUE)) \ completed) :
           target \in target_topics}

\* the number of positions of sequence s holding a member of S
CountIn(s, S) == Cardinality({i \in DOMAIN s : s[i] \in S})

\* get_learning_path: in_degree, every listed prerequisite inside `required`
\* counted once per listing
InDegree(required) ==
    [t \in required |-> CountIn(Get(adjacency, t), required)]

\* get_learning_path.priority: the sort key of a topic id
priority(topic_id) ==
    IF topic_id \in DOMAIN topics
    THEN <<topics[topic_id].difficulty, topics[topic_id].estimated_minutes>>
    ELSE <<UnknownDifficulty, UnknownMinutes>>

\* Python's order of two-element tuples
TupleLess(a, b) == a[1] < b[1] \/ (a[1] = b[1] /\ a[2] < b[2])

\* x put into the sorted sequence s behind every element whose key is not
\* greater than its own
RECURSIVE InsertByPriority(_, _)
InsertByPriority(s, x) ==
    IF s = <<>> THEN <<x>>
    ELSE IF TupleLess(priority(x), priority(Head(s)))
         THEN <<x>> \o s
         ELSE <<Head(s)>> \o InsertByPriority(Tail(s), x)

\* queue.sort(key=priority): a stable sort
RECURSIVE SortByPriority(_)
SortByPriority(queue) ==
    IF queue = <<>> THEN <<>>
    ELSE InsertByPriority(SortByPriority(SubSeq(queue, 1, Len(queue) - 1)),
                          queue[Len(queue)])

\* The in-degree update with the zero test made before the decrement.
RECURSIVE RelaxTestFirst(_, _, _, _)
RelaxTestFirst(dependents, in_degree, queue, required) ==
    IF dependents = <<>> THEN [in_degree |-> in_degree, queue |-> queue]
    ELSE LET d == Head(dependents) IN
         IF d \notin required
         THEN RelaxTestFirst(Tail(dependents), in_degree, queue, required)
         ELSE RelaxTestFirst(Tail(dependents),
                             [in_degree EXCEPT ![d] = @ - 1],
                             IF in_degree[d] = 0 THEN Append(queue, d) ELSE queue,
                             required)

\* get_learning_path, "Update in-degrees": for each dependent of the node just
\* emitted that is required, one less; queued when it reaches zero.
RECURSIVE Relax(_, _, _, _)
Relax(dependents, in_degree, queue, required) ==
    IF dependents = <<>> THEN [in_degree |-> in_degree, queue |-> queue]
    ELSE LET d == Head(dependents) IN
         IF d \notin required
         THEN Relax(Tail(dependents), in_degree, queue, required)
         ELSE Relax(Tail(dependents),
                    [in_degree EXCEPT ![d] = @ - 1],
                    IF in_degree[d] - 1 = 0 THEN Append(queue, d) ELSE queue,
                    required)

\* get_learning_path, the loop of Kahn's algorithm
RECURSIVE KahnLoop(_, _, _, _)
KahnLoop(queue, in_degree, result, required) ==
    IF queue = <<>> THEN result
    ELSE LET sorted  == SortByPriority(queue)
             current == Head(sorted)
             next    == Relax(Get(reverse_adjacency, current), in_degree,
                              Tail(sorted), required)
         IN  KahnLoop(next.queue, next.in_degree, Append(result, current),
                      required)

\* the orders in which a Python set S can be iterated
Orderings(S) ==
    {q \in [1..Cardinality(S) -> S] : \A i, j \in DOMAIN q : i # j => q[i] # q[j]}

\* The lists get_learning_path can return: one for each order in which the
\* set `required` yields its zero-in-degree members.
LearningPaths(target_topics, completed) ==
    LET required  == Required(target_topics, completed)
        in_degree == InDegree(required)
        zero      == {t \in required : in_degree[t] = 0}
    IN  {KahnLoop(SortByPriority(queue), in_degree, <<>>, required) :
         queue \in Orderings(zero)}

\* KnowledgeGraph.get_learning_path
get_learning_path(target_topics, completed) ==
    /\ \E path \in LearningPaths(target_topics, completed) :
          graphResult' = <<[op |-> "get_learning_path",
                            target_topics |-> target_topics,
                            completed |-> completed,
                            path |-> path]>>
    /\ UNCHANGED <<topics, edges, adjacency, reverse_adjacency>>

\* the topic ids a returned learning path names: the list is all that
\* get_learning_path returns
Reported(result) == Range(result.path)

\* ---- exercise results
\* score: "Exercise score (0-100)"
MaxScore == 100
MaxAttempts == 5
Scores == 0..MaxScore
Attempts == 1..MaxAttempts

\* The classifier with the perfect-score threshold at 90.
quality_from_exercise_result_lenient(score, attempts) ==
    IF attempts > 3
    THEN IF score >= 80 THEN 3 ELSE IF score >= 50 THEN 2 ELSE 1
    ELSE IF score >= 90 THEN 5
    ELSE IF score >= 80 THEN 4
    ELSE IF score >= 60 THEN 3
    ELSE IF score >= 40 THEN 2
    ELSE IF score > 0 THEN 1 ELSE 0

\* quality_from_exercise_result
quality_from_exercise_result(score, attempts) ==
    IF attempts > 3
    THEN IF score >= 80 THEN 3 ELSE IF score >= 50 THEN 2 ELSE 1
    ELSE IF score >= 95 THEN 5
    ELSE IF score >= 80 THEN 4
    ELSE IF score >= 60 THEN 3
    ELSE IF score >= 40 THEN 2
    ELSE IF score > 0 THEN 1 ELSE 0

\* a call of quality_from_exercise_result, observed in srsResult
classify(score, attempts) ==
    /\ srsResult' = [op |-> "quality_from_exercise_result", score |-> score,
                     attempts |-> attempts,
                     quality |-> quality_from_exercise_result(score, attempts)]
    /\ UNCHANGED <<now, items>>

(***************************************************************************)
(*                             Study planner                               *)
(***************************************************************************)

\* ---- program constants
\* generate_plan: days_available = 90 without an exam
DefaultHorizon == 90
\* _generate_sessions: "if available_minutes < 15"
MinChunk == 15
\* ExamInfo.duration_minutes default
ExamMinutes == 120
\* LearnerProfile.preferred_session_minutes default
SessionMinutes == 45

\* StudySession.actual_duration = None
NoDuration == 0 - 1

\* date.today()
Today == now \div TicksPerDay

\* int(x) of the quotient n / d, d > 0: towards zero
Trunc(n, d) == IF n >= 0 THEN n \div d ELSE 0 - ((0 - n) \div d)

\* ExamInfo.days_until
days_until(exam) == exam.date - Today

\* The first of the exams of sequence es with the least days_until, as min()
\* returns it.
RECURSIVE MinByDaysUntil(_)
MinByDaysUntil(es) ==
    IF Len(es) = 1 THEN es[1]
    ELSE LET m == MinByDaysUntil(SubSeq(es, 1, Len(es) - 1))
         IN  IF days_until(es[Len(es)]) < days_until(m) THEN es[Len(es)] ELSE m

\* e.days_until >= 0
IsFuture(e) == days_until(e) >= 0

\* UniversityConfig.next_exam over the exam list exams: None is <<>>
NextExamOf(exams) ==
    LET future_exams == SelectSeq(exams, IsFuture)
    IN  IF future_exams = <<>> THEN <<>> ELSE <<MinByDaysUntil(future_exams)>>

\* self.config.next_exam
next_exam == NextExamOf(config.exams)

\* self.topic_status.get(unit_id, TopicStatus.NEW)
StatusOf(unit_id) ==
    IF unit_id \in DOMAIN topic_status THEN topic_status[unit_id] ELSE "new"

NeedsCoverage(unit) == StatusOf(unit.id) \in {"new", "in_progress", "rusty"}

\* StudyPlanner._get_topics_to_cover
TopicsToCover == SelectSeq(config.syllabus_units, NeedsCoverage)

\* sum(t.estimated_hours for t in topics), in minutes
RECURSIVE SumEstimated(_)
SumEstimated(units) ==
    IF units = <<>> THEN 0
    ELSE Head(units).estimated_minutes + SumEstimated(Tail(units))

\* _prioritize_topics: status_priority.get(status, 0)
StatusPriority(status) ==
    CASE status = "rusty" -> 50
      [] status = "in_progress" -> 40
      [] status = "new" -> 30
      [] status = "learned" -> 10
      [] OTHER -> 0

\* The score with the weight taken as a fraction: weight / 100 * 2.
Priority2Normalised(topic, exam) ==
    (4 * topic.weight) \div 100
    + 2 * StatusPriority(StatusOf(topic.id))
    - topic.order
    + (IF exam # <<>> /\ topic.id \in exam[1].topics_included THEN 60 ELSE 0)

\* The score without its weight term.
Priority2NoWeight(topic, exam) ==
    2 * StatusPriority(StatusOf(topic.id))
    - topic.order
    + (IF exam # <<>> /\ topic.id \in exam[1].topics_included THEN 60 ELSE 0)

\* _prioritize_topics.calculate_priority, doubled (order * 0.5 is a half)
Priority2(topic, exam) ==
    4 * topic.weight
    + 2 * StatusPriority(StatusOf(topic.id))
    - topic.order
    + (IF exam # <<>> /\ topic.id \in exam[1].topics_included THEN 60 ELSE 0)

\* The insertion of a sort that puts a later element before its equals.
RECURSIVE InsertByScoreUnstable(_, _, _)
InsertByScoreUnstable(s, x, exam) ==
    IF s = <<>> THEN <<x>>
    ELSE IF Priority2(x, exam) >= Priority2(Head(s), exam)
         THEN <<x>> \o s
         ELSE <<Head(s)>> \o InsertByScoreUnstable(Tail(s), x, exam)

\* x put into the descending sequence s behind every element whose score is
\* not less than its own: sorted(..., reverse=True) keeps equals in order
RECURSIVE InsertByScore(_, _, _)
InsertByScore(s, x, exam) ==
    IF s = <<>> THEN <<x>>
    ELSE IF Priority2(x, exam) > Priority2(Head(s), exam)
         THEN <<x>> \o s
         ELSE <<Head(s)>> \o InsertByScore(Tail(s), x, exam)

\* StudyPlanner._prioritize_topics
RECURSIVE prioritize_topics(_, _)
prioritize_topics(units, exam) ==
    IF units = <<>> THEN <<>>
    ELSE InsertByScore(prioritize_topics(SubSeq(units, 1, Len(units) - 1), exam),
                       units[Len(units)], exam)

\* _generate_sessions: the session type of a topic
SessionType(unit_id) ==
    CASE StatusOf(unit_id) = "new" -> "learn_new"
      [] StatusOf(unit_id) = "rusty" -> "review_srs"
      [] StatusOf(unit_id) = "learned" -> "reinforce"
      [] OTHER -> "learn_new"

\* _generate_sessions, the while loop of one study day. st holds
\* current_topic_idx (idx, counted from 0), topic_hours_remaining (remaining,
\* in minutes) and sessions; planned is minutes_planned.
RECURSIVE PackDay(_, _, _, _, _)
PackDay(sorted, current_date, daily_minutes, planned, st) ==
    IF ~(planned < daily_minutes /\ st.idx < Len(sorted)) THEN st
    ELSE LET topic == sorted[st.idx + 1]
             available_minutes ==
                 Min(config.learner_profile.preferred_session_minutes,
                     Min(daily_minutes - planned, st.remaining[topic.id]))
         IN  IF available_minutes < MinChunk
             THEN PackDay(sorted, current_date, daily_minutes, planned,
                          [st EXCEPT !.idx = @ + 1])
             ELSE LET session ==
                          [id |-> <<"session", Len(st.sessions)>>,
                           date |-> current_date,
                           duration_minutes |-> available_minutes,
                           session_type |-> SessionType(topic.id),
                           topic_id |-> topic.id,
                           priority |-> st.idx + 1,
                           is_completed |-> FALSE,
                           actual_duration |-> NoDuration]
                      left == st.remaining[topic.id] - available_minutes
                  IN  PackDay(sorted, current_date, daily_minutes,
                              planned + available_minutes,
                              [idx |-> IF left <= 0 THEN st.idx + 1 ELSE st.idx,
                               remaining |-> [st.remaining EXCEPT
                                                 ![topic.id] = left],
                               sessions |-> Append(st.sessions, session)])

\* _generate_sessions, the loop over day_offset in range(days_available). Once
\* current_topic_idx has passed the last topic no later day enters its while
\* loop, so the remaining days are not walked.
RECURSIVE DayLoop(_, _, _, _, _)
DayLoop(sorted, day_offset, days_available, daily_minutes, st) ==
    IF day_offset >= days_available \/ st.idx >= Len(sorted) THEN st
    ELSE LET current_date == Today + day_offset
         IN  IF (current_date % 7) \notin Range(config.learner_profile.study_days)
             THEN DayLoop(sorted, day_offset + 1, days_available,
                          daily_minutes, st)
             ELSE DayLoop(sorted, day_offset + 1, days_available, daily_minutes,
                          PackDay(sorted, current_date, daily_minutes, 0, st))

\* _generate_sessions: the exam simulation sessions
SimulationOffsets == <<3, 7, 14>>

SimulationSession(exam, offset) ==
    [id |-> <<"session_sim", offset>>,
     date |-> exam.date - offset,
     duration_minutes |-> exam.duration_minutes,
     session_type |-> "simulate",
     topic_id |-> None,
     priority |-> 0,
     is_completed |-> FALSE,
     actual_duration |-> NoDuration]

FitsBeforeExam(exam, offset) == days_until(exam) >= offset

Simulations(exam) ==
    IF exam # <<>> /\ days_until(exam[1]) > 3
    THEN LET fits(o) == FitsBeforeExam(exam[1], o)
             offsets == SelectSeq(SimulationOffsets, fits)
         IN  [i \in DOMAIN offsets |-> SimulationSession(exam[1], offsets[i])]
    ELSE <<>>

\* the order of sessions.sort(key=lambda s: (s.date, s.priority))
SessionLess(a, b) == TupleLess(<<a.date, a.priority>>, <<b.date, b.priority>>)

RECURSIVE InsertSession(_, _)
InsertSession(s, x) ==
    IF s = <<>> THEN <<x>>
    ELSE IF SessionLess(x, Head(s))
         THEN <<x>> \o s
         ELSE <<Head(s)>> \o InsertSession(Tail(s), x)

\* sessions.sort(...): a stable sort
RECURSIVE SortSessions(_)
SortSessions(sessions) ==
    IF sessions = <<>> THEN <<>>
    ELSE InsertSession(SortSessions(SubSeq(sessions, 1, Len(sessions) - 1)),
                       sessions[Len(sessions)])

\* int(hours_per_day * 60), hours_per_day = hours_per_week / len(study_days)
DailyMinutes(hours_per_week) ==
    Trunc(hours_per_week * 60, Len(config.learner_profile.study_days))

\* StudyPlanner._generate_sessions
generate_sessions(units, days_available, hours_per_week, exam) ==
    LET sorted == prioritize_topics(units, exam)
        start  == [idx |-> 0,
                   remaining |-> [id \in {units[i].id : i \in DOMAIN units} |->
                                     (CHOOSE u \in Range(units) : u.id = id)
                                         .estimated_minutes],
                   sessions |-> <<>>]
        packed == DayLoop(sorted, 0, days_available,
                          DailyMinutes(hours_per_week), start)
    IN  SortSessions(packed.sessions \o Simulations(exam))

\* the ZeroDivisionError of hours_available / hours_needed
DivisionError == 0 - 1

\* StudyPlanner._calculate_confidence, needed in minutes, available in
\* sevenths of a minute (days_available * hours_per_week * 60)
calculate_confidence(needed, available7) ==
    IF available7 = 0 THEN 0
    ELSE IF needed = 0 THEN DivisionError
    ELSE IF 2 * available7 >= 3 * 7 * needed THEN 95
    ELSE IF 5 * available7 >= 6 * 7 * needed THEN 85
    ELSE IF available7 >= 7 * needed THEN 70
    ELSE IF 5 * available7 >= 4 * 7 * needed THEN 50
    ELSE IF 5 * available7 >= 3 * 7 * needed THEN 30
    ELSE 10

\* generate_plan: the strategy, escalated by the time constraint
Strategy(strategy, needed, available7) ==
    IF 2 * 7 * needed > 3 * available7 THEN "intensive"
    ELSE IF 7 * needed > available7 THEN "exam_focused"
    ELSE strategy

\* What StudyPlanner.generate_plan computes from the configuration, the status
\* map and the clock: the call as observed, the ranking, and the plan or the
\* error. An Optional argument is <<>> (None) or <<v>>.
\* target_exam is the exam the target_exam argument resolved to; the exam list
\* is read nowhere else.
PlanFor(target_exam_arg, target_exam, hours_per_week_arg, strategy_arg) ==
    LET hours_per_week == IF hours_per_week_arg = <<>>
                          THEN config.learner_profile.hours_per_week
                          ELSE hours_per_week_arg[1]
        days_available == IF target_exam # <<>>
                          THEN Max(1, days_until(target_exam[1]))
                          ELSE DefaultHorizon
        available7 == days_available * hours_per_week * 60
        topics_to_cover == TopicsToCover
        needed == SumEstimated(topics_to_cover)
        strategy == Strategy(strategy_arg, needed, available7)
        sessions == generate_sessions(topics_to_cover, days_available,
                                      hours_per_week, target_exam)
        confidence == calculate_confidence(needed, available7)
        \* the call as observed: its arguments, the clock, and the exam and
        \* weekly hours the defaults resolved to
        call == [target_exam_arg |-> target_exam_arg,
                 hours_per_week_arg |-> hours_per_week_arg,
                 at |-> now,
                 today |-> Today,
                 target_exam |-> target_exam,
                 hours_per_week |-> hours_per_week]
    IN  IF confidence = DivisionError
        THEN [call |-> call, status |-> "ZeroDivisionError",
              ranking |-> <<>>, plan |-> <<>>]
        ELSE [call |-> call, status |-> "ok",
              ranking |-> prioritize_topics(topics_to_cover, target_exam),
              plan |-> <<[created_at |-> now,
                          target_exam |-> target_exam,
                          sessions |-> sessions,
                          hours_per_week |-> hours_per_week,
                          strategy |-> strategy,
                          confidence_score |-> confidence,
                          hours_completed |-> 0]>>]

\* generate_plan: target_exam = self.config.next_exam when none is given
PlanOutcome(target_exam_arg, hours_per_week_arg, strategy_arg) ==
    PlanFor(target_exam_arg,
            IF target_exam_arg = <<>> THEN next_exam ELSE target_exam_arg,
            hours_per_week_arg, strategy_arg)

\* self._current_plan = plan, reached only when nothing was raised
StoredPlan(outcome, stored) ==
    IF outcome.status = "ok" THEN outcome.plan ELSE stored

\* StudyPlanner.generate_plan
generate_plan(target_exam_arg, hours_per_week_arg, strategy_arg) ==
    LET outcome == PlanOutcome(target_exam_arg, hours_per_week_arg, strategy_arg)
    IN  /\ planResult' = <<outcome>>
        /\ current_plan' = StoredPlan(outcome, current_plan)
        /\ UNCHANGED <<config, topic_status, adjustResult>>

\* PlanAdjustmentType
AdjustmentTypes ==
    {"time_added", "time_reduced", "topic_added", "topic_removed",
     "exam_date_changed", "progress_faster", "progress_slower",
     "topic_difficulty"}

\* kwargs.get("new_hours_per_week", 4) and kwargs.get("new_hours_per_week", 12)
ReducedHours == 4
AddedHours == 12

\* kwargs.get(key, default): an absent key is <<>>
KwargOr(kwarg, default) == IF kwarg = <<>> THEN default ELSE kwarg[1]

\* _handle_exam_date_changed: self.config.exams[0].date = new_date when there
\* is a next exam; the list is not sorted again
ExamDateChanged(new_date) ==
    IF next_exam # <<>>
    THEN [config EXCEPT !.exams[1].date = new_date]
    ELSE config

\* The generate_plan arguments each handler of adjust_plan passes.
HandlerArgs(adjustment_type, kwargs) ==
    CASE adjustment_type = "time_reduced" ->
             [hours |-> <<KwargOr(kwargs.new_hours_per_week, ReducedHours)>>,
              strategy |-> "exam_focused"]
      [] adjustment_type = "time_added" ->
             [hours |-> <<KwargOr(kwargs.new_hours_per_week, AddedHours)>>,
              strategy |-> "balanced"]
      [] adjustment_type = "progress_slower" ->
             [hours |-> <<>>, strategy |-> "intensive"]
      [] OTHER -> [hours |-> <<>>, strategy |-> "balanced"]

\* the adjustment types adjust_plan has a branch for
Handled ==
    {"time_reduced", "time_added", "topic_added", "exam_date_changed",
     "progress_slower", "progress_faster"}

\* the adjust_plan call as observed
AdjustCall(adjustment_type, kwargs) ==
    [op |-> "adjust_plan", adjustment_type |-> adjustment_type,
     kwargs |-> kwargs, at |-> now, had_plan |-> current_plan # <<>>]

\* StudyPlanner.adjust_plan. kwargs holds new_hours_per_week, new_date and
\* topic, each <<>> when the caller left it out. The exam date is written
\* before the plan is generated, so generate_plan resolves next_exam over the
\* changed exam list.
adjust_plan(adjustment_type, kwargs) ==
    IF current_plan = <<>>
    THEN LET outcome == PlanOutcome(<<>>, <<>>, "balanced")
         IN  /\ planResult' = <<outcome>>
             /\ current_plan' = StoredPlan(outcome, current_plan)
             /\ adjustResult' = <<[call |-> AdjustCall(adjustment_type, kwargs),
                                   status |-> outcome.status,
                                   plan |-> outcome.plan]>>
             /\ UNCHANGED <<config, topic_status>>
    ELSE IF adjustment_type \in Handled
    THEN LET args == HandlerArgs(adjustment_type, kwargs)
             changed == IF adjustment_type = "exam_date_changed"
                        THEN ExamDateChanged(kwargs.new_date[1])
                        ELSE config
             outcome == PlanFor(<<>>, NextExamOf(changed.exams), args.hours,
                                args.strategy)
         IN  /\ config' = changed
             /\ planResult' = <<outcome>>
             /\ current_plan' = StoredPlan(outcome, current_plan)
             /\ adjustResult' = <<[call |-> AdjustCall(adjustment_type, kwargs),
                                   status |-> outcome.status,
                                   plan |-> outcome.plan]>>
             /\ UNCHANGED topic_status
    ELSE /\ adjustResult' = <<[call |-> AdjustCall(adjustment_type, kwargs),
                               status |-> "ok",
                               plan |-> current_plan]>>
         /\ UNCHANGED <<config, topic_status, current_plan, planResult>>

\* index of the first session of the plan with this id, 0 when there is none
RECURSIVE FirstSession(_, _, _)
FirstSession(sessions, session_id, i) ==
    IF i > Len(sessions) THEN 0
    ELSE IF sessions[i].id = session_id THEN i
    ELSE FirstSession(sessions, session_id, i + 1)

\* StudyPlanner.mark_session_complete; hours_completed is kept in minutes
mark_session_complete(session_id, actual_duration) ==
    LET i == IF current_plan = <<>> THEN 0
             ELSE FirstSession(current_plan[1].sessions, session_id, 1)
        call == [op |-> "mark_session_complete", session_id |-> session_id,
                 actual_duration |-> actual_duration, at |-> now,
                 had_plan |-> current_plan # <<>>]
    IN  /\ current_plan' =
              IF i = 0 THEN current_plan
              ELSE <<[current_plan[1] EXCEPT
                         !.sessions[i].is_completed = TRUE,
                         !.sessions[i].actual_duration = actual_duration,
                         !.hours_completed = @ + actual_duration]>>
        /\ adjustResult' = <<[call |-> call, status |-> "ok",
                              returned |-> i # 0]>>
        /\ UNCHANGED <<config, topic_status, planResult>>

\* ---- the planner's inputs
UnitIds == {"u1", "u2"}
Weights == {10, 20}
Estimates == {30, 120}
Orders == {0, 1}
Statuses == {"new", "rusty", "mastered"}
Weekdays == <<0, 1, 2, 3, 4>>
Saturday == <<5>>
HoursArgs == {<<>>, <<0 - 1>>, <<0>>}

\* SyllabusUnit
Unit(id, weight, estimated_minutes, order) ==
    [id |-> id, weight |-> weight, estimated_minutes |-> estimated_minutes,
     order |-> order]

\* ExamInfo
Exam(date, topics_included) ==
    [date |-> date, duration_minutes |-> ExamMinutes,
     topics_included |-> topics_included]

\* LearnerProfile
Profile(hours_per_week, study_days) ==
    [hours_per_week |-> hours_per_week,
     preferred_session_minutes |-> SessionMinutes,
     study_days |-> study_days]

\* The syllabi, as add_syllabus_unit keeps them: ordered by order.
Syllabi ==
    {<<Unit("u1", 20, 120, 0), Unit("u2", w, e, o)>> :
        w \in Weights, e \in Estimates, o \in Orders}

\* The exam lists, as add_exam keeps them: ordered by date.
ExamLists ==
    {<<>>, <<Exam(0, {})>>, <<Exam(5, {"u2"})>>, <<Exam(15, {})>>,
     <<Exam(0 - 1, {}), Exam(8, {})>>}

Profiles == {Profile(5, Weekdays), Profile(8, Weekdays), Profile(5, Saturday)}

\* The status maps: a unit without an entry is new.
StatusMaps ==
    {[id \in D |-> IF id = "u1" THEN "mastered" ELSE s] :
        D \in SUBSET UnitIds, s \in Statuses \ {"new"}}

\* ---- the inputs of adjust_plan and mark_session_complete
NewHours == {<<>>, <<2>>}
NewDates == {6}
ActualDurations == {30}
MaxCompleted == 1
UnknownSession == <<"session", 0 - 1>>

NoKwargs == [new_hours_per_week |-> <<>>, new_date |-> <<>>, topic |-> <<>>]

\* the keyword arguments a caller passes with each adjustment type
Kwargs(adjustment_type) ==
    CASE adjustment_type \in {"time_reduced", "time_added"} ->
             {[NoKwargs EXCEPT !.new_hours_per_week = h] : h \in NewHours}
      [] adjustment_type = "exam_date_changed" ->
             {[NoKwargs EXCEPT !.new_date = <<d>>] : d \in NewDates}
      [] adjustment_type = "topic_added" ->
             {[NoKwargs EXCEPT !.topic = <<Unit("u3", 20, 30, 2)>>]}
      [] OTHER -> {NoKwargs}

\* the configurations the adjusted planner is constructed over
AdjustConfigs ==
    {[exams |-> es,
      syllabus_units |-> <<Unit("u1", 20, 120, 0), Unit("u2", 20, 30, 0)>>,
      learner_profile |-> Profile(5, Weekdays)] :
        es \in {<<>>, <<Exam(5, {"u2"})>>, <<Exam(0 - 1, {}), Exam(8, {})>>}}

\* number of completed sessions of the stored plan
RECURSIVE CountCompleted(_)
CountCompleted(sessions) ==
    IF sessions = <<>> THEN 0
    ELSE (IF Head(sessions).is_completed THEN 1 ELSE 0)
         + CountCompleted(Tail(sessions))

\* the same of an Optional plan
Completed(plan) ==
    IF plan = <<>> THEN 0 ELSE CountCompleted(plan[1].sessions)

SessionIds(plan) ==
    IF plan = <<>> THEN {}
    ELSE {plan[1].sessions[i].id : i \in DOMAIN plan[1].sessions}

\* ---- the inputs of the ranking before an exam
MaxOrder == 10
UncoveredStatuses == {"new", "in_progress", "rusty"}

\* units.sort(key=lambda u: u.order): a stable sort
RECURSIVE SortByOrder(_)
SortByOrder(units) ==
    IF units = <<>> THEN <<>>
    ELSE LET rest == SortByOrder(SubSeq(units, 1, Len(units) - 1))
             x == units[Len(units)]
             NotAfter(u) == u.order <= x.order
             After(u) == u.order > x.order
         IN  SelectSeq(rest, NotAfter) \o <<x>> \o SelectSeq(rest, After)

\* The syllabi of a topic of weight 80, one of weight 20 and a third one, with
\* every pair of order hints, as add_syllabus_unit keeps them.
RankSyllabi ==
    {SortByOrder(<<Unit("u1", 80, 120, o1), Unit("u2", 20, 120, o2),
                   Unit("u3", 100, 120, 0)>>) :
        o1 \in 0..MaxOrder, o2 \in 0..MaxOrder}

(***************************************************************************)
(*                          Prerequisite manager                           *)
(***************************************************************************)

RelationshipTypes == {"required", "recommended", "helpful"}
ModuleStatuses == {"not_started", "in_progress", "completed"}
MaxPrerequisites == 2

\* PrerequisiteManager._get_topic_status over module-level progress: a module
\* without a completed or in_progress status is NOT_STARTED
get_topic_status(topic_id) ==
    IF topic_id \in DOMAIN progress /\ progress[topic_id] = "completed"
    THEN "completed"
    ELSE IF topic_id \in DOMAIN progress /\ progress[topic_id] = "in_progress"
    THEN "in_progress"
    ELSE "not_started"

\* number of Prerequisite records held
RECURSIVE CountPrerequisites(_)
CountPrerequisites(targets) ==
    IF targets = {} THEN 0
    ELSE LET t == CHOOSE x \in targets : TRUE
         IN  Len(prerequisites[t]) + CountPrerequisites(targets \ {t})

\* PrerequisiteManager.add_prerequisite: a second prerequisite with the same
\* source and target is not added
manager_add_prerequisite(source_topic, target_topic, relationship_type) ==
    LET prereq == [source_topic |-> source_topic,
                   target_topic |-> target_topic,
                   relationship_type |-> relationship_type,
                   inferred |-> FALSE]
        held == WithKey(prerequisites, target_topic)
        SameSource(p) == p.source_topic = source_topic
    IN  /\ prerequisites' = IF SelectSeq(held[target_topic], SameSource) = <<>>
                            THEN AppendTo(held, target_topic, prereq)
                            ELSE held
        /\ readinessResult' = <<>>
        /\ UNCHANGED progress

\* the source topics of the prerequisites of the list with the given status
\* (partial: any status but completed and not_started)
SourcesWith(prereqs, statuses) ==
    LET Has(p) == get_topic_status(p.source_topic) \in statuses
        chosen == SelectSeq(prereqs, Has)
    IN  [i \in DOMAIN chosen |-> chosen[i].source_topic]

\* check_readiness with the test for missing prerequisites ahead of the test
\* for required ones.
ReadinessLevelMissingFirst(missing, partial, required_missing) ==
    IF missing = <<>> /\ partial = <<>>
    THEN [readiness |-> "ready", confidence |-> 10]
    ELSE IF missing # <<>>
    THEN [readiness |-> "not_ready", confidence |-> 4]
    ELSE IF required_missing # <<>>
    THEN [readiness |-> "blocked", confidence |-> 2]
    ELSE IF partial # <<>>
    THEN [readiness |-> "mostly_ready", confidence |-> 7]
    ELSE [readiness |-> "ready", confidence |-> 9]

\* check_readiness: the readiness level and its confidence, in tenths
ReadinessLevel(missing, partial, required_missing) ==
    IF missing = <<>> /\ partial = <<>>
    THEN [readiness |-> "ready", confidence |-> 10]
    ELSE IF required_missing # <<>>
    THEN [readiness |-> "blocked", confidence |-> 2]
    ELSE IF missing # <<>>
    THEN [readiness |-> "not_ready", confidence |-> 4]
    ELSE IF partial # <<>>
    THEN [readiness |-> "mostly_ready", confidence |-> 7]
    ELSE [readiness |-> "ready", confidence |-> 9]

\* PrerequisiteManager.check_readiness
check_readiness(topic_id) ==
    LET prereqs == Get(prerequisites, topic_id)
        met == SourcesWith(prereqs, {"completed"})
        missing == SourcesWith(prereqs, {"not_started"})
        partial == SourcesWith(prereqs, {"in_progress", "needs_review"})
        IsRequired(p) == p.relationship_type = "required"
        required_prereqs == SelectSeq(prereqs, IsRequired)
        InMissing(p) == p.source_topic \in Range(missing)
        required_missing == SelectSeq(required_prereqs, InMissing)
        level == ReadinessLevel(missing, partial, required_missing)
    IN  /\ readinessResult' =
              <<[topic_id |-> topic_id,
                 readiness |-> level.readiness,
                 prerequisites_met |-> met,
                 prerequisites_missing |-> missing,
                 prerequisites_partial |-> partial,
                 confidence_score |-> level.confidence,
                 estimated_prep_time_minutes |->
                     Len(missing) * 30 + Len(partial) * 15]>>
        /\ UNCHANGED <<prerequisites, progress>>

(***************************************************************************)
(*                         Recommendation engine                           *)
(***************************************************************************)
\* Priorities are kept in ten-thousandths (0.85 is 8500), a skill gap's own
\* priority in thousandths. srs_due_items is kept as the length of the list,
\* the only thing the engine reads of it.

\* ---- program constants
\* `return recommendations[:10]`
TopCount == 10
\* SrsSystem.get_due_items(limit=20), the list the engine is constructed with
DueLimit == 20
\* session duration above which a break is recommended
BreakAfter == 45

\* Recommendation
Recommendation(recommendation_type, title, score, estimated_minutes) ==
    [recommendation_type |-> recommendation_type, title |-> title,
     priority |-> score, estimated_minutes |-> estimated_minutes]

\* SkillAnalyzer.identify_gaps: the SkillGap of a skill that blocks `blocking`
\* others, gap_size levels below the target, assessed before or not
SkillGap(blocking, gap_size, assessed) ==
    [priority |-> Min(1000, 60 * blocking + 100 * gap_size
                            + (IF assessed THEN 150 ELSE 300)),
     estimated_time_minutes |-> gap_size * 30]

\* self.progress.get("modules", {}).get(module_id, {})
ModuleProgress(module_id) ==
    IF module_id \in DOMAIN engine.progress.modules
    THEN engine.progress.modules[module_id]
    ELSE [status |-> None, exercises |-> {}]

\* The due-review recommendation with a priority below the other kinds.
get_review_recommendations_low ==
    IF engine.srs_due_items > 0
    THEN <<Recommendation("review", "Review Due", 7500,
                          Min(30, engine.srs_due_items * 3))>>
    ELSE <<>>

\* RecommendationEngine._get_review_recommendations
get_review_recommendations ==
    IF engine.srs_due_items > 0
    THEN <<Recommendation("review", "Review Due", 9000,
                          Min(30, engine.srs_due_items * 3))>>
    ELSE <<>>

\* all(status of p == "completed" for p in prereqs)
PrereqsMet(module) ==
    \A i \in DOMAIN module.prerequisites :
        ModuleProgress(module.prerequisites[i]).status = "completed"

\* _get_next_topic_recommendations: the first module that is not completed
\* and has its prerequisites met recommends its first topic, if it has one;
\* no later module is looked at
RECURSIVE NextTopicFrom(_)
NextTopicFrom(modules) ==
    IF modules = <<>> THEN <<>>
    ELSE LET module == Head(modules) IN
         IF ModuleProgress(module.id).status = "completed" \/ ~PrereqsMet(module)
         THEN NextTopicFrom(Tail(modules))
         ELSE IF module.topics = <<>> THEN <<>>
              ELSE <<Recommendation("next_topic", "Learn", 7000,
                                    module.topics[1].estimated_minutes)>>

\* RecommendationEngine._get_next_topic_recommendations
get_next_topic_recommendations == NextTopicFrom(engine.curriculum)

\* difficulty_map.get(difficulty, 2)
DifficultyValue(difficulty) ==
    CASE difficulty = "basic" -> 1
      [] difficulty = "intermediate" -> 2
      [] difficulty = "advanced" -> 3
      [] difficulty = "challenge" -> 4
      [] OTHER -> 2

\* _get_exercise_recommendations: the first exercise that is not completed
RECURSIVE ExerciseFrom(_, _)
ExerciseFrom(exercises, done) ==
    IF exercises = <<>> THEN <<>>
    ELSE IF Head(exercises).id \in done
         THEN ExerciseFrom(Tail(exercises), done)
         ELSE <<Recommendation("exercise", "Exercise", 6000,
                               DifficultyValue(Head(exercises).difficulty) * 15)>>

\* RecommendationEngine._get_exercise_recommendations
get_exercise_recommendations ==
    LET current == engine.progress.current_module
        IsCurrent(module) == current # <<>> /\ module.id = current[1]
        found == SelectSeq(engine.curriculum, IsCurrent)
    IN  IF current = <<>> \/ found = <<>> THEN <<>>
        ELSE ExerciseFrom(found[1].exercises,
                          ModuleProgress(current[1]).exercises)

\* RecommendationEngine._get_skill_gap_recommendations: the first three gaps,
\* priority = gap.priority * 0.8
get_skill_gap_recommendations ==
    LET gaps == SubSeq(engine.skill_gaps, 1, Min(3, Len(engine.skill_gaps)))
    IN  [i \in DOMAIN gaps |->
            Recommendation("next_topic", "Strengthen", gaps[i].priority * 8,
                           gaps[i].estimated_time_minutes)]

\* RecommendationEngine._get_quick_practice_recommendations
get_quick_practice_recommendations(available_minutes) ==
    <<Recommendation("exercise", "Quick Practice", 8000,
                     Min(15, available_minutes))>>
    \o (IF engine.srs_due_items > 0
        THEN <<Recommendation("review", "Quick Review", 8500,
                              Min(10, engine.srs_due_items) * 2)>>
        ELSE <<>>)

\* RecommendationEngine._get_deep_learning_recommendations
get_deep_learning_recommendations(available_minutes) ==
    <<Recommendation("next_topic", "Deep Dive Session", 8000,
                     Min(60, available_minutes)),
      Recommendation("challenge", "Challenge Exercise", 7000,
                     Min(45, available_minutes))>>

\* RecommendationEngine._get_comprehensive_review_recommendations
get_comprehensive_review_recommendations ==
    (IF engine.srs_due_items > 0
     THEN <<Recommendation("review", "Complete Review Session", 9500,
                           engine.srs_due_items * 3)>>
     ELSE <<>>)
    \o (IF engine.skill_gaps # <<>>
        THEN <<Recommendation("review", "Review: weakest", 8000, 30)>>
        ELSE <<>>)

\* RecommendationEngine._get_break_recommendation
get_break_recommendation ==
    Recommendation("break", "Take a Break", 6000, 10)

\* get_recommendations, up to the filter: the recommendations collected
Collected(available_minutes, context) ==
    get_review_recommendations
    \o (CASE context = "quick_practice" ->
                 get_quick_practice_recommendations(available_minutes)
          [] context = "deep_learning" ->
                 get_deep_learning_recommendations(available_minutes)
          [] context = "review" ->
                 get_comprehensive_review_recommendations
          [] OTHER ->
                 get_next_topic_recommendations
                 \o get_exercise_recommendations
                 \o get_skill_gap_recommendations)
    \o (IF engine.progress.session_minutes > BreakAfter
        THEN <<get_break_recommendation>>
        ELSE <<>>)

\* recommendations.sort(key=lambda r: r.priority, reverse=True): a stable
\* sort, equal priorities keep their order
RECURSIVE SortByPriorityDesc(_)
SortByPriorityDesc(recs) ==
    IF recs = <<>> THEN <<>>
    ELSE LET rest == SortByPriorityDesc(SubSeq(recs, 1, Len(recs) - 1))
             x == recs[Len(recs)]
             NotAfter(r) == r.priority >= x.priority
             After(r) == r.priority < x.priority
         IN  SelectSeq(rest, NotAfter) \o <<x>> \o SelectSeq(rest, After)

\* the list get_recommendations returns
Recommendations(available_minutes, context) ==
    LET Fits(r) == r.estimated_minutes <= available_minutes
        sorted == SortByPriorityDesc(
                      SelectSeq(Collected(available_minutes, context), Fits))
    IN  SubSeq(sorted, 1, Min(TopCount, Len(sorted)))

\* RecommendationEngine.get_recommendations
get_recommendations(available_minutes, context) ==
    /\ recResult' = <<[op |-> "get_recommendations",
                       available_minutes |-> available_minutes,
                       context |-> context,
                       recommendations |->
                           Recommendations(available_minutes, context)]>>
    /\ UNCHANGED engine

\* RecommendationEngine.get_next_action: the first of
\* get_recommendations(), or the default recommendation
get_next_action ==
    LET recommendations == Recommendations(60, "general") IN
    /\ recResult' = <<[op |-> "get_next_action",
                       available_minutes |-> 60,
                       context |-> "general",
                       recommendations |->
                           IF recommendations # <<>>
                           THEN <<recommendations[1]>>
                           ELSE <<Recommendation("next_topic",
                                      "Continue Learning", 5000, 30)>>]>>
    /\ UNCHANGED engine

\* ---- the engine's inputs
Contexts == {"general", "quick_practice", "deep_learning", "review"}
AvailableMinutes == {5, 20, 60}
DueCounts == {0, 1, 4, DueLimit}

\* the curricula: none, or m1 followed by m2, which requires m1
Curricula ==
    {<<>>,
     <<[id |-> "m1", prerequisites |-> <<>>,
        topics |-> <<[estimated_minutes |-> 30]>>,
        exercises |-> <<[id |-> "e1", difficulty |-> "basic"],
                        [id |-> "e2", difficulty |-> "challenge"]>>],
       [id |-> "m2", prerequisites |-> <<"m1">>,
        topics |-> <<[estimated_minutes |-> 5]>>,
        exercises |-> <<>>]>>}

\* the progress records: m1 untouched, under way with or without e1 done, or
\* completed; a session of 0 or 50 minutes
Progresses ==
    {[current_module |-> current,
      modules |-> modules,
      session_minutes |-> minutes] :
        current \in {<<>>, <<"m1">>},
        modules \in {<<>>,
                     "m1" :> [status |-> "in_progress", exercises |-> {}],
                     "m1" :> [status |-> "in_progress", exercises |-> {"e1"}],
                     "m1" :> [status |-> "completed", exercises |-> {"e1"}]},
        minutes \in {0, 50}}

\* the lists identify_gaps returns, highest priority first
GapLists ==
    {<<>>,
     <<SkillGap(0, 1, TRUE)>>,
     <<SkillGap(11, 4, FALSE), SkillGap(2, 2, FALSE), SkillGap(0, 2, TRUE),
       SkillGap(0, 1, TRUE)>>}

(***************************************************************************)
(*                             Specifications                              *)
(***************************************************************************)

\* The spaced-repetition system on its own. The state after construction:
\* _load() has read what an earlier session saved.
SRSInit ==
    /\ now = 0
    /\ items = <<SavedItem>>
    /\ srsResult = [op |-> None, item_id |-> None, quality |-> 0,
                    status |-> "ok", at |-> 0, before |-> <<>>]
    /\ topics = <<>>
    /\ edges = <<>>
    /\ adjacency = <<>>
    /\ reverse_adjacency = <<>>
    /\ graphResult = <<>>
    /\ config = <<>>
    /\ topic_status = <<>>
    /\ current_plan = <<>>
    /\ planResult = <<>>
    /\ adjustResult = <<>>
    /\ prerequisites = <<>>
    /\ progress = <<>>
    /\ readinessResult = <<>>
    /\ engine = <<>>
    /\ recResult = <<>>

SRSNext ==
    \/ \E id \in ItemIds :
          add_item(id) /\ UNCHANGED <<graphVars, planVars, prereqVars, recVars>>
    \/ \E id \in ItemIds, q \in Qualities :
          /\ SumReviews(items) < Len(SavedQualities) + MaxReviews
          /\ record_review(id, q)
          /\ UNCHANGED <<graphVars, planVars, prereqVars, recVars>>
    \/ Tick /\ UNCHANGED <<graphVars, planVars, prereqVars, recVars>>

SpecSRS == SRSInit /\ [][SRSNext]_vars

\* ---- the review queue: items are reviewed while time passes, and the due
\* items are read with every limit. The state after construction: _load() has
\* read three items that were saved as add_item made them.
DueInit ==
    /\ now = 0
    /\ items = <<NewItem("i1", 0), NewItem("i2", 0), NewItem("i3", 0)>>
    /\ srsResult = [op |-> None, item_id |-> None, quality |-> 0,
                    status |-> "ok", at |-> 0, before |-> <<>>]
    /\ topics = <<>>
    /\ edges = <<>>
    /\ adjacency = <<>>
    /\ reverse_adjacency = <<>>
    /\ graphResult = <<>>
    /\ config = <<>>
    /\ topic_status = <<>>
    /\ current_plan = <<>>
    /\ planResult = <<>>
    /\ adjustResult = <<>>
    /\ prerequisites = <<>>
    /\ progress = <<>>
    /\ readinessResult = <<>>
    /\ engine = <<>>
    /\ recResult = <<>>

DueNext ==
    \/ \E id \in DueItemIds, q \in DueQualities :
          /\ SumReviews(items) < MaxDueReviews
          /\ record_review(id, q)
          /\ UNCHANGED <<graphVars, planVars, prereqVars, recVars>>
    \/ \E limit \in 0..MaxLimit :
          get_due_items(limit) /\ UNCHANGED <<graphVars, planVars, prereqVars, recVars>>
    \/ TickUntil(MaxDueNow) /\ UNCHANGED <<graphVars, planVars, prereqVars, recVars>>

SpecDue == DueInit /\ [][DueNext]_vars

\* ---- the exercise classifier on its own, applied to every score and number
\* of attempts
QualityInit ==
    /\ now = 0
    /\ items = <<>>
    /\ srsResult = [op |-> None, score |-> 0, attempts |-> 0, quality |-> 0]
    /\ topics = <<>>
    /\ edges = <<>>
    /\ adjacency = <<>>
    /\ reverse_adjacency = <<>>
    /\ graphResult = <<>>
    /\ config = <<>>
    /\ topic_status = <<>>
    /\ current_plan = <<>>
    /\ planResult = <<>>
    /\ adjustResult = <<>>
    /\ prerequisites = <<>>
    /\ progress = <<>>
    /\ readinessResult = <<>>
    /\ engine = <<>>
    /\ recResult = <<>>

QualityNext ==
    \E score \in Scores, attempts \in Attempts :
        classify(score, attempts) /\ UNCHANGED <<graphVars, planVars, prereqVars, recVars>>

SpecQuality == QualityInit /\ [][QualityNext]_vars

\* The knowledge graph on its own, from an empty graph (no storage file).
GraphInit ==
    /\ topics = <<>>
    /\ edges = <<>>
    /\ adjacency = <<>>
    /\ reverse_adjacency = <<>>
    /\ graphResult = <<>>
    /\ now = 0
    /\ items = <<>>
    /\ srsResult = <<>>
    /\ config = <<>>
    /\ topic_status = <<>>
    /\ current_plan = <<>>
    /\ planResult = <<>>
    /\ adjustResult = <<>>
    /\ prerequisites = <<>>
    /\ progress = <<>>
    /\ readinessResult = <<>>
    /\ engine = <<>>
    /\ recResult = <<>>

GraphNext ==
    \/ \E id \in TopicIds, d \in Difficulties :
          add_topic(id, d) /\ UNCHANGED <<srsVars, planVars, prereqVars, recVars>>
    \/ \E f \in TopicIds, t \in TopicIds, r \in RelationTypes :
          /\ Len(edges) < MaxEdges
          /\ add_prerequisite(f, t, r)
          /\ UNCHANGED <<srsVars, planVars, prereqVars, recVars>>
    \/ \E targets \in SUBSET TopicIds :
          /\ targets # {}
          /\ get_learning_path(targets, {})
          /\ UNCHANGED <<srsVars, planVars, prereqVars, recVars>>

SpecGraph == GraphInit /\ [][GraphNext]_vars

\* ---- the indexes of the knowledge graph: topics and edges are added, the
\* indexes rebuilt from what was saved, and both indexes queried
IndexInit ==
    /\ topics = <<>>
    /\ edges = <<>>
    /\ adjacency = <<>>
    /\ reverse_adjacency = <<>>
    /\ graphResult = <<>>
    /\ now = 0
    /\ items = <<>>
    /\ srsResult = <<>>
    /\ config = <<>>
    /\ topic_status = <<>>
    /\ current_plan = <<>>
    /\ planResult = <<>>
    /\ adjustResult = <<>>
    /\ prerequisites = <<>>
    /\ progress = <<>>
    /\ readinessResult = <<>>
    /\ engine = <<>>
    /\ recResult = <<>>

IndexNext ==
    \/ \E id \in TopicIds :
          /\ add_topic(id, DefaultDifficulty)
          /\ UNCHANGED <<srsVars, planVars, prereqVars, recVars>>
    \/ \E f \in TopicIds, t \in TopicIds, r \in RelationTypes :
          /\ Len(edges) < MaxEdges
          /\ add_prerequisite(f, t, r)
          /\ UNCHANGED <<srsVars, planVars, prereqVars, recVars>>
    \/ rebuild_adjacency /\ UNCHANGED <<srsVars, planVars, prereqVars, recVars>>
    \/ \E id \in TopicIds, recursive \in BOOLEAN :
          /\ query_prerequisites(id, recursive)
          /\ UNCHANGED <<srsVars, planVars, prereqVars, recVars>>
    \/ \E id \in TopicIds, recursive \in BOOLEAN :
          /\ query_dependents(id, recursive)
          /\ UNCHANGED <<srsVars, planVars, prereqVars, recVars>>

SpecIndex == IndexInit /\ [][IndexNext]_vars

\* ---- the knowledge graph with edges of several kinds: topics of either
\* difficulty, edges of either kind, every query
KindsInit ==
    /\ topics = <<>>
    /\ edges = <<>>
    /\ adjacency = <<>>
    /\ reverse_adjacency = <<>>
    /\ graphResult = <<>>
    /\ now = 0
    /\ items = <<>>
    /\ srsResult = <<>>
    /\ config = <<>>
    /\ topic_status = <<>>
    /\ current_plan = <<>>
    /\ planResult = <<>>
    /\ adjustResult = <<>>
    /\ prerequisites = <<>>
    /\ progress = <<>>
    /\ readinessResult = <<>>
    /\ engine = <<>>
    /\ recResult = <<>>

KindsNext ==
    \/ \E id \in TopicIds, d \in Difficulties :
          add_topic(id, d) /\ UNCHANGED <<srsVars, planVars, prereqVars, recVars>>
    \/ \E f \in TopicIds, t \in TopicIds, r \in EdgeKinds :
          /\ Len(edges) < MaxEdges
          /\ add_prerequisite(f, t, r)
          /\ UNCHANGED <<srsVars, planVars, prereqVars, recVars>>
    \/ \E id \in TopicIds, recursive \in BOOLEAN :
          /\ query_prerequisites(id, recursive)
          /\ UNCHANGED <<srsVars, planVars, prereqVars, recVars>>
    \/ \E id \in TopicIds, recursive \in BOOLEAN :
          /\ query_dependents(id, recursive)
          /\ UNCHANGED <<srsVars, planVars, prereqVars, recVars>>
    \/ \E targets \in SUBSET TopicIds :
          /\ targets # {}
          /\ get_learning_path(targets, {})
          /\ UNCHANGED <<srsVars, planVars, prereqVars, recVars>>

SpecKinds == KindsInit /\ [][KindsNext]_vars

\* ---- the study planner: a planner constructed over a configuration, asked
\* for plans as the clock advances
PlanInit ==
    /\ now = 0
    /\ items = <<>>
    /\ srsResult = <<>>
    /\ topics = <<>>
    /\ edges = <<>>
    /\ adjacency = <<>>
    /\ reverse_adjacency = <<>>
    /\ graphResult = <<>>
    /\ config \in {[exams |-> es, syllabus_units |-> us, learner_profile |-> p] :
                      es \in ExamLists, us \in Syllabi, p \in Profiles}
    /\ topic_status \in StatusMaps
    /\ current_plan = <<>>
    /\ planResult = <<>>
    /\ adjustResult = <<>>
    /\ prerequisites = <<>>
    /\ progress = <<>>
    /\ readinessResult = <<>>
    /\ engine = <<>>
    /\ recResult = <<>>

PlanNext ==
    \/ /\ Tick
       /\ UNCHANGED <<graphVars, planVars, prereqVars, recVars>>
    \/ /\ \E target_exam \in {<<>>} \cup {<<e>> : e \in Range(config.exams)},
             hours_per_week \in HoursArgs :
             generate_plan(target_exam, hours_per_week, "balanced")
       /\ UNCHANGED <<srsVars, graphVars, prereqVars, recVars>>

SpecPlan == PlanInit /\ [][PlanNext]_vars

\* ---- the study planner under adjustment: plans are generated, adjusted and
\* their sessions marked complete as the clock advances
AdjustInit ==
    /\ now = 0
    /\ items = <<>>
    /\ srsResult = <<>>
    /\ topics = <<>>
    /\ edges = <<>>
    /\ adjacency = <<>>
    /\ reverse_adjacency = <<>>
    /\ graphResult = <<>>
    /\ config \in AdjustConfigs
    /\ topic_status = <<>>
    /\ current_plan = <<>>
    /\ planResult = <<>>
    /\ adjustResult = <<>>
    /\ prerequisites = <<>>
    /\ progress = <<>>
    /\ readinessResult = <<>>
    /\ engine = <<>>
    /\ recResult = <<>>

AdjustNext ==
    \/ /\ Tick
       /\ UNCHANGED <<graphVars, planVars, prereqVars, recVars>>
    \/ /\ generate_plan(<<>>, <<>>, "balanced")
       /\ UNCHANGED <<srsVars, graphVars, prereqVars, recVars>>
    \/ /\ UNCHANGED <<srsVars, graphVars, prereqVars, recVars>>
       /\ \E adjustment_type \in AdjustmentTypes :
             \E kwargs \in Kwargs(adjustment_type) :
                adjust_plan(adjustment_type, kwargs)
    \/ /\ Completed(current_plan) < MaxCompleted
       /\ \E session_id \in SessionIds(current_plan) \cup {UnknownSession},
             actual_duration \in ActualDurations :
             mark_session_complete(session_id, actual_duration)
       /\ UNCHANGED <<srsVars, graphVars, prereqVars, recVars>>

SpecAdjust == AdjustInit /\ [][AdjustNext]_vars

\* ---- the ranking three days before an exam: two topics to cover, weighted
\* 80 and 20, and a mastered one
RankInit ==
    /\ now = 0
    /\ items = <<>>
    /\ srsResult = <<>>
    /\ topics = <<>>
    /\ edges = <<>>
    /\ adjacency = <<>>
    /\ reverse_adjacency = <<>>
    /\ graphResult = <<>>
    /\ config \in {[exams |-> <<Exam(3, included)>>,
                    syllabus_units |-> us,
                    learner_profile |-> Profile(5, Weekdays)] :
                      included \in SUBSET {"u1", "u2"}, us \in RankSyllabi}
    /\ topic_status \in {[id \in {"u1", "u2", "u3"} |->
                             IF id = "u1" THEN s1
                             ELSE IF id = "u2" THEN s2 ELSE "mastered"] :
                            s1 \in UncoveredStatuses, s2 \in UncoveredStatuses}
    /\ current_plan = <<>>
    /\ planResult = <<>>
    /\ adjustResult = <<>>
    /\ prerequisites = <<>>
    /\ progress = <<>>
    /\ readinessResult = <<>>
    /\ engine = <<>>
    /\ recResult = <<>>

RankNext ==
    /\ generate_plan(<<>>, <<>>, "balanced")
    /\ UNCHANGED <<srsVars, graphVars, prereqVars, recVars>>

SpecRank == RankInit /\ [][RankNext]_vars

\* ---- the prerequisite manager on its own: an empty curriculum, a progress
\* record per module, prerequisites added by hand
ReadinessInit ==
    /\ now = 0
    /\ items = <<>>
    /\ srsResult = <<>>
    /\ topics = <<>>
    /\ edges = <<>>
    /\ adjacency = <<>>
    /\ reverse_adjacency = <<>>
    /\ graphResult = <<>>
    /\ config = <<>>
    /\ topic_status = <<>>
    /\ current_plan = <<>>
    /\ planResult = <<>>
    /\ adjustResult = <<>>
    /\ prerequisites = <<>>
    /\ progress \in [TopicIds -> ModuleStatuses]
    /\ readinessResult = <<>>
    /\ engine = <<>>
    /\ recResult = <<>>

ReadinessNext ==
    \/ /\ CountPrerequisites(DOMAIN prerequisites) < MaxPrerequisites
       /\ \E source_topic \in TopicIds, target_topic \in TopicIds,
             relationship_type \in RelationshipTypes :
             manager_add_prerequisite(source_topic, target_topic,
                                      relationship_type)
       /\ UNCHANGED <<srsVars, graphVars, planVars, recVars>>
    \/ /\ \E topic_id \in TopicIds : check_readiness(topic_id)
       /\ UNCHANGED <<srsVars, graphVars, planVars, recVars>>

SpecReadiness == ReadinessInit /\ [][ReadinessNext]_vars

\* ---- the recommendation engine: constructed over a progress record, a
\* curriculum, a list of skill gaps and a list of due items, and asked
RecommendInit ==
    /\ now = 0
    /\ items = <<>>
    /\ srsResult = <<>>
    /\ topics = <<>>
    /\ edges = <<>>
    /\ adjacency = <<>>
    /\ reverse_adjacency = <<>>
    /\ graphResult = <<>>
    /\ config = <<>>
    /\ topic_status = <<>>
    /\ current_plan = <<>>
    /\ planResult = <<>>
    /\ adjustResult = <<>>
    /\ prerequisites = <<>>
    /\ progress = <<>>
    /\ readinessResult = <<>>
    /\ engine \in {[progress |-> p, curriculum |-> c, skill_gaps |-> g,
                    srs_due_items |-> n] :
                      p \in Progresses, c \in Curricula, g \in GapLists,
                      n \in DueCounts}
    /\ recResult = <<>>

RecommendNext ==
    \/ /\ \E available_minutes \in AvailableMinutes, context \in Contexts :
             get_recommendations(available_minutes, context)
       /\ UNCHANGED <<srsVars, graphVars, planVars, prereqVars>>
    \/ /\ get_next_action
       /\ UNCHANGED <<srsVars, graphVars, planVars, prereqVars>>

SpecRecommend == RecommendInit /\ [][RecommendNext]_vars

(***************************************************************************)
(*                     Properties: spaced repetition                       *)
(***************************************************************************)

\* the last call was a record_review that returned (did not raise)
ReviewReturned ==
    /\ srsResult.op = "record_review"
    /\ srsResult.status = "ok"

\* C3 (easiness floor): whatever reviews were recorded, every item's
\* easiness_factor is at least 1.3 (130 hundredths).
C3_EasinessFloor ==
    \A i \in DOMAIN items : items[i].easiness_factor >= 130

\* C3 witness: a review of quality 3 of an item whose easiness was less than
\* 0.14 above the floor: the floor is what decided the new easiness.
C3_Witness ==
    /\ ReviewReturned
    /\ Clamp(srsResult.quality) = 3
    /\ srsResult.before[1].easiness_factor - 14 < 130
    /\ Item(srsResult.item_id).easiness_factor = 130

\* C4 (SM-2 monotonicity): a review of quality >= 3 never leaves an interval
\* below the one the item held before it, so along repeated reviews with one
\* fixed quality >= 3 the intervals are non-decreasing from each review to
\* the next, starting from the interval held before the run.
C4_IntervalNonDecreasing ==
    (ReviewReturned /\ Clamp(srsResult.quality) >= 3)
        => Item(srsResult.item_id).interval_days
               >= srsResult.before[1].interval_days

\* C4 witness: the third or a later successful review in a row, after which
\* the interval has grown.
C4_Witness ==
    /\ ReviewReturned
    /\ Clamp(srsResult.quality) >= 3
    /\ srsResult.before[1].repetition_count >= 2
    /\ Item(srsResult.item_id).interval_days
           > srsResult.before[1].interval_days

\* C5 (failure reset): after a review of quality < 3 the item has
\* repetition_count 0 and interval_days 1, the easiness factor it had before,
\* and next_review one day after the time of the review.
C5_FailureReset ==
    (ReviewReturned /\ Clamp(srsResult.quality) < 3)
        => LET item == Item(srsResult.item_id)
           IN  /\ item.repetition_count = 0
               /\ item.interval_days = 1
               /\ item.easiness_factor = srsResult.before[1].easiness_factor
               /\ item.next_review = srsResult.at + TicksPerDay

\* C5 witness: a failed review of an item that had progressed (interval above
\* one day, repetitions counted).
C5_Witness ==
    /\ ReviewReturned
    /\ Clamp(srsResult.quality) < 3
    /\ srsResult.before[1].repetition_count > 0
    /\ srsResult.before[1].interval_days > 1

\* C10 (unregistered item): a record_review call with an id that is not
\* registered raises the item-not-found error (ValueError) and changes no
\* item: none is created, none is modified.
C10_UnregisteredRejected ==
    [][\A id \in ItemIds, q \in Qualities :
          (~Registered(id) /\ record_review(id, q))
              => (srsResult'.status = "ValueError" /\ items' = items)]_vars

\* C10 witness: record_review has just raised for an id that is not registered
\* while another item is.
C10_Witness ==
    /\ srsResult.op = "record_review"
    /\ srsResult.status = "ValueError"
    /\ ~Registered(srsResult.item_id)
    /\ items # <<>>

\* quality_from_exercise_result has just returned
Classified == srsResult.op = "quality_from_exercise_result"

\* the table of qualities by score, for few and for many attempts
QualityTable(score, attempts) ==
    IF attempts > 3
    THEN CASE score \in 80..100 -> 3
           [] score \in 50..79  -> 2
           [] score \in 1..49   -> 1
    ELSE CASE score \in 95..100 -> 5
           [] score \in 80..94  -> 4
           [] score \in 60..79  -> 3
           [] score \in 40..59  -> 2
           [] score \in 1..39   -> 1

\* C14 (exercise-to-quality table): for every score in 1..100 and every
\* number of attempts >= 1 the classifier returns the quality of the table:
\* more than 3 attempts: >= 80 is 3, 50..79 is 2, 1..49 is 1; otherwise
\* >= 95 is 5, 80..94 is 4, 60..79 is 3, 40..59 is 2, 1..39 is 1.
C14_QualityTable ==
    (Classified /\ srsResult.score \in 1..100) =>
        srsResult.quality = QualityTable(srsResult.score, srsResult.attempts)

\* the classifier returned 3 for a score of 85 reached in 4 attempts
C14_Witness ==
    /\ Classified
    /\ srsResult.score = 85
    /\ srsResult.attempts = 4
    /\ srsResult.quality = 3

\* C15: a score of 0 is quality 0 whatever the number of attempts, up to 3 or
\* above.
C15_ZeroIsBlackout ==
    (Classified /\ srsResult.score = 0) => srsResult.quality = 0


(***************************************************************************)
(*                      Properties: knowledge graph                        *)
(***************************************************************************)

\* p is listed as a prerequisite of t
PrereqEdge(p, t) == \E i \in DOMAIN Get(adjacency, t) : adjacency[t][i] = p

\* S with the prerequisites of its members added, n times over
RECURSIVE WithPrereqs(_, _)
WithPrereqs(S, n) ==
    IF n = 0 THEN S
    ELSE WithPrereqs(S \cup {p \in TopicIds : \E t \in S : PrereqEdge(p, t)},
                     n - 1)

\* S and its transitive prerequisites
PrereqClosure(S) == WithPrereqs(S, Cardinality(TopicIds))

\* no topic is a transitive prerequisite of itself
Acyclic ==
    \A t \in TopicIds :
        t \notin PrereqClosure({p \in TopicIds : PrereqEdge(p, t)})

\* C2 (topological soundness): on an acyclic graph, with nothing completed,
\* the list get_learning_path returns holds each target and each transitive
\* prerequisite of a target exactly once, and a prerequisite stands before
\* every topic that lists it.
C2_TopologicalSoundness ==
    (graphResult # <<>> /\ Acyclic)
        => LET path == graphResult[1].path
               want == PrereqClosure(graphResult[1].target_topics)
           IN  /\ Range(path) = want
               /\ Len(path) = Cardinality(want)
               /\ \A i, j \in DOMAIN path :
                     PrereqEdge(path[i], path[j]) => i < j

\* C2 witness: the scenario of the specification, A without prerequisites and
\* B requiring A, asked for {A, B}, answered [A, B].
C2_Witness ==
    /\ graphResult # <<>>
    /\ Acyclic
    /\ PrereqEdge("A", "B")
    /\ graphResult[1].target_topics = {"A", "B"}
    /\ graphResult[1].path = <<"A", "B">>

\* C9 (cycle reporting): whatever get_learning_path returns names every
\* requested topic and every transitive prerequisite of one, the topics left
\* with a positive in-degree by a cycle included: none is dropped.
C9_CycleReported ==
    graphResult # <<>>
        => PrereqClosure(graphResult[1].target_topics)
               \subseteq Reported(graphResult[1])

\* the state of the knowledge graph
GraphState == <<topics, edges, adjacency, reverse_adjacency>>

\* add_topic applied again to the state an equal call left
AddTopicAgain ==
    \A id \in TopicIds, d \in Difficulties :
        (/\ id \in DOMAIN topics
         /\ topics[id].difficulty = d
         /\ id \in DOMAIN adjacency
         /\ id \in DOMAIN reverse_adjacency
         /\ add_topic(id, d)) => UNCHANGED GraphState

\* add_prerequisite applied again to the state an equal call left: the edge
\* is the last of the list
AddEdgeAgain ==
    \A f \in TopicIds, t \in TopicIds, r \in RelationTypes :
        (/\ edges # <<>>
         /\ edges[Len(edges)] =
                [from_topic |-> f, to_topic |-> t, relation_type |-> r]
         /\ add_prerequisite(f, t, r)) => UNCHANGED GraphState

\* add_item applied again
AddItemAgain ==
    \A id \in ItemIds :
        (/\ srsResult # <<>>
         /\ srsResult.op = "add_item"
         /\ srsResult.item_id = id
         /\ add_item(id)) => UNCHANGED items

\* mark_session_complete applied again with the arguments of the call before
MarkCompleteAgain ==
    (/\ adjustResult # <<>>
     /\ adjustResult[1].call.op = "mark_session_complete"
     /\ mark_session_complete(adjustResult[1].call.session_id,
                              adjustResult[1].call.actual_duration))
        => UNCHANGED current_plan

\* every review of a registered item adds one to its total_reviews
ReviewAdvances ==
    \A id \in ItemIds, q \in Qualities :
        (Registered(id) /\ record_review(id, q))
            => Item(id)'.total_reviews > Item(id).total_reviews

\* C21 (idempotence): add_topic, add_prerequisite, add_item and
\* mark_session_complete applied a second time with the same arguments leave
\* the state (topics, edge list and adjacency indexes, review items, plan
\* sessions and hours_completed) as the first application left it;
\* record_review alone is not idempotent, each call raising total_reviews.
C21_Idempotence ==
    [][/\ AddTopicAgain
       /\ AddEdgeAgain
       /\ AddItemAgain
       /\ MarkCompleteAgain
       /\ ReviewAdvances]_vars

\* a list was returned by get_prerequisites, get_dependents or
\* get_learning_path
Listed ==
    /\ graphResult # <<>>
    /\ graphResult[1].op \in {"get_prerequisites", "get_dependents",
                              "get_learning_path"}

\* the ids of the returned list
ListedIds ==
    IF graphResult[1].op = "get_learning_path"
    THEN Range(graphResult[1].path)
    ELSE Range(graphResult[1].result)

\* the ids the caller passed
AskedIds ==
    IF graphResult[1].op = "get_learning_path"
    THEN graphResult[1].target_topics
    ELSE {graphResult[1].topic_id}

\* C22 (dangling references): an edge naming a topic id that add_topic never
\* added is ignored by the graph algorithms: asked about topics of the graph,
\* get_prerequisites, get_dependents and get_learning_path return only ids of
\* topics of the graph.
C22_DanglingIgnored ==
    (Listed /\ AskedIds \subseteq DOMAIN topics)
        => ListedIds \subseteq DOMAIN topics

\* the quality of [0, 5] nearest to q
NearestQuality(q) == IF q > 5 THEN 5 ELSE IF q < 0 THEN 0 ELSE q

\* C24 (out-of-range quality): for a registered item in any state,
\* record_review with a quality above 5 leaves exactly an item state that
\* quality 5 leaves, with a quality below 0 exactly one that quality 0 leaves,
\* and it does not raise.
C24_QualityClamped ==
    [][\A id \in ItemIds, q \in Qualities :
          (Registered(id) /\ record_review(id, q))
              => /\ srsResult'.status = "ok"
                 /\ \E r \in Reviewed(Item(id), NearestQuality(q), now) :
                       items' = [items EXCEPT ![IndexOf(id)] = r]]_vars

\* a review of quality 6 has been recorded as a perfect one: the easiness
\* factor rose by 0.1, as for quality 5
C24_Witness ==
    /\ ReviewReturned
    /\ srsResult.quality > 5
    /\ srsResult.status = "ok"
    /\ srsResult.before # <<>>
    /\ Item(srsResult.item_id).easiness_factor
           = srsResult.before[1].easiness_factor + 10
    /\ Item(srsResult.item_id).correct_reviews
           = srsResult.before[1].correct_reviews + 1

\* the place of a topic id in the order of ids
IdRank(topic_id) ==
    CASE topic_id = "A" -> 1
      [] topic_id = "B" -> 2
      [] topic_id = "C" -> 3

\* a comes before b by (difficulty, estimated time, id)
TieBrokenBefore(a, b) ==
    \/ TupleLess(priority(a), priority(b))
    \/ priority(a) = priority(b) /\ IdRank(a) < IdRank(b)

\* t is ready once the first n topics of path are emitted: every listed
\* prerequisite of t inside `required` is among them
ReadyAfter(t, path, n, required) ==
    \A p \in Range(Get(adjacency, t)) \cap required :
        \E i \in 1..n : path[i] = p

\* C27 (deterministic tie-breaking): at every step of get_learning_path the
\* topic emitted is the least by (difficulty, estimated time, id) of the
\* topics with in-degree zero at that step.
C27_TieBreaking ==
    (graphResult # <<>> /\ graphResult[1].op = "get_learning_path")
        => LET path == graphResult[1].path
               required == Required(graphResult[1].target_topics,
                                    graphResult[1].completed)
           IN  \A n \in DOMAIN path :
                   \A t \in required \ {path[i] : i \in 1..n} :
                       ReadyAfter(t, path, n - 1, required)
                           => TieBrokenBefore(path[n], t)

\* an edge of the required kind makes p a prerequisite of t
RequiredEdge(p, t) ==
    \E i \in DOMAIN edges :
        /\ edges[i].from_topic = p
        /\ edges[i].to_topic = t
        /\ edges[i].relation_type = "prerequisite"

\* S with the required-kind prerequisites of its members added, n times over
RECURSIVE WithRequired(_, _)
WithRequired(S, n) ==
    IF n = 0 THEN S
    ELSE WithRequired(S \cup {p \in TopicIds : \E t \in S : RequiredEdge(p, t)},
                      n - 1)

\* no topic reaches itself over edges of the required kind
RequiredAcyclic ==
    \A t \in TopicIds :
        t \notin WithRequired({p \in TopicIds : RequiredEdge(p, t)},
                              Cardinality(TopicIds))

\* C28 (only required edges constrain the order): get_learning_path counts
\* the in-degree over required-kind prerequisites only. A topic of a lower
\* (difficulty, time) is emitted right after one of a higher only when an
\* edge of the required kind makes the earlier its prerequisite, and when the
\* required-kind edges have no cycle every requested topic is in the result.
C28_RequiredOnly ==
    (graphResult # <<>> /\ graphResult[1].op = "get_learning_path")
        => LET path == graphResult[1].path
           IN  /\ \A i \in DOMAIN path :
                     (/\ i < Len(path)
                      /\ TupleLess(priority(path[i + 1]), priority(path[i])))
                         => RequiredEdge(path[i], path[i + 1])
               /\ RequiredAcyclic
                     => graphResult[1].target_topics \subseteq Range(path)

\* the stored edge list holds an edge from p to t
StoredEdge(p, t) ==
    \E i \in DOMAIN edges : edges[i].from_topic = p /\ edges[i].to_topic = t

\* the ids reached from the members of S in one to n steps along the stored
\* edges, backwards (prerequisites) or forwards (dependents)
RECURSIVE ReachedFrom(_, _, _)
ReachedFrom(S, n, backwards) ==
    LET step == {x \in TopicIds :
                    \E y \in S : IF backwards THEN StoredEdge(x, y)
                                 ELSE StoredEdge(y, x)}
    IN  IF n = 1 THEN step
        ELSE step \cup ReachedFrom(step, n - 1, backwards)

\* C30 (index duality): after any sequence of add_topic and add_prerequisite,
\* and after the indexes are rebuilt from the stored edges, t is in
\* get_prerequisites(u) iff u is in get_dependents(t), for direct and for
\* recursive queries; a recursive query returns (terminates), cycles or not,
\* with every id reachable along the stored edges exactly once.
C30_IndexDuality ==
    /\ \A t \in TopicIds, u \in TopicIds, recursive \in BOOLEAN :
          t \in Range(get_prerequisites(u, recursive))
              <=> u \in Range(get_dependents(t, recursive))
    /\ (/\ graphResult # <<>>
        /\ graphResult[1].op \in {"get_prerequisites", "get_dependents"})
          => LET result == graphResult[1].result
                 reached ==
                     ReachedFrom({graphResult[1].topic_id},
                                 IF graphResult[1].recursive
                                 THEN Cardinality(TopicIds) ELSE 1,
                                 graphResult[1].op = "get_prerequisites")
             IN  /\ Range(result) = reached
                 /\ graphResult[1].recursive
                       => Len(result) = Cardinality(reached)

\* on the cycle A -> B -> A, rebuilt indexes or not, the recursive query for
\* the prerequisites of A returned B and A, each once
C30_Witness ==
    /\ graphResult # <<>>
    /\ graphResult[1].op = "get_prerequisites"
    /\ graphResult[1].topic_id = "A"
    /\ graphResult[1].recursive
    /\ StoredEdge("A", "B")
    /\ StoredEdge("B", "A")
    /\ graphResult[1].result = <<"B", "A">>
    /\ get_dependents("A", TRUE) = <<"B", "A">>

\* an item whose every review so far, k of them, had quality 5: each such
\* review adds 0.1 to the easiness factor and no other review does
AllPerfect(item, k) ==
    /\ item.total_reviews = k
    /\ item.easiness_factor = InitialEasiness + 10 * k

\* C13 as stated: a fresh item reviewed three times with quality 5 has
\* interval 1 after the first review, 6 after the second and 16 after the
\* third.
C13_WorkedScenarioStated ==
    \A i \in DOMAIN items :
        /\ AllPerfect(items[i], 1) => items[i].interval_days = 1
        /\ AllPerfect(items[i], 2) => items[i].interval_days = 6
        /\ AllPerfect(items[i], 3) => items[i].interval_days = 16

\* C13 (SM-2 worked scenario): a fresh item reviewed three times with
\* quality 5 has interval 1 after the first review, 6 after the second and
\* 17 after the third: ceil(6 * 2.8), the easiness factor being raised to 2.8
\* before the interval is computed.
C13_WorkedScenario ==
    \A i \in DOMAIN items :
        /\ AllPerfect(items[i], 1) => items[i].interval_days = 1
        /\ AllPerfect(items[i], 2) => items[i].interval_days = 6
        /\ AllPerfect(items[i], 3) => items[i].interval_days = 17

\* the third quality-5 review of a fresh item has just been recorded
C13_Witness ==
    /\ ReviewReturned
    /\ Clamp(srsResult.quality) = 5
    /\ srsResult.before # <<>>
    /\ AllPerfect(srsResult.before[1], 2)
    /\ AllPerfect(Item(srsResult.item_id), 3)


(***************************************************************************)
(*                        Properties: study planner                        *)
(***************************************************************************)

\* the last generate_plan call returned a plan
PlanReturned == planResult # <<>> /\ planResult[1].status = "ok"

\* the plan the last call returned
ReturnedPlan == planResult[1].plan[1]

\* sum of duration_minutes over the sessions dated d
RECURSIVE MinutesOn(_, _)
MinutesOn(sessions, d) ==
    IF sessions = <<>> THEN 0
    ELSE (IF Head(sessions).date = d THEN Head(sessions).duration_minutes ELSE 0)
         + MinutesOn(Tail(sessions), d)

SessionDates(sessions) == {sessions[i].date : i \in DOMAIN sessions}

IsStudyDay(d) == (d % 7) \in Range(config.learner_profile.study_days)

\* the minutes planned on date d, times the number of study days, against
\* hours_per_week * 60: the daily budget without the division
WithinBudget(plan, d) ==
    IF IsStudyDay(d)
    THEN MinutesOn(plan.sessions, d) * Len(config.learner_profile.study_days)
             <= plan.hours_per_week * 60
    ELSE MinutesOn(plan.sessions, d) = 0

\* C1: in every plan generate_plan returns, the minutes of all sessions dated
\* one day, exam simulations included, are at most that day's budget
\* hours_per_week / number of study days * 60 (nothing on a day that is not a
\* study day).
C1_BudgetRespect ==
    PlanReturned =>
        \A d \in SessionDates(ReturnedPlan.sessions) : WithinBudget(ReturnedPlan, d)

\* position of the unit in the syllabus: its first-seen order
SyllabusIndex(unit) ==
    CHOOSE i \in DOMAIN config.syllabus_units : config.syllabus_units[i] = unit

\* r lists exactly the units to cover, by descending score, equal scores in
\* syllabus order
StablyRanked(r, exam) ==
    /\ Len(r) = Len(TopicsToCover)
    /\ Range(r) = Range(TopicsToCover)
    /\ \A i, j \in DOMAIN r :
          i < j =>
             \/ Priority2(r[i], exam) > Priority2(r[j], exam)
             \/ /\ Priority2(r[i], exam) = Priority2(r[j], exam)
                /\ SyllabusIndex(r[i]) < SyllabusIndex(r[j])

\* two observed calls had the same arguments on the same date
SameSnapshot(c1, c2) ==
    /\ c1.target_exam_arg = c2.target_exam_arg
    /\ c1.hours_per_week_arg = c2.hours_per_week_arg
    /\ c1.today = c2.today

\* C6: the ranking of every returned plan is by descending score with equal
\* scores in first-seen order, and a generate_plan call that repeats the
\* previous call on the same configuration, statuses and date returns the same
\* ranking and the same sessions, whatever the time of day.
C6_Determinism ==
    /\ [](PlanReturned =>
             StablyRanked(planResult[1].ranking, planResult[1].call.target_exam))
    /\ [][(/\ planResult # <<>>
           /\ planResult' # <<>>
           /\ planResult' # planResult
           /\ SameSnapshot(planResult[1].call, planResult'[1].call)
           /\ config' = config
           /\ topic_status' = topic_status)
          => /\ planResult'[1].status = planResult[1].status
             /\ planResult'[1].ranking = planResult[1].ranking
             /\ (planResult[1].status = "ok" =>
                    planResult'[1].plan[1].sessions = planResult[1].plan[1].sessions)
         ]_vars

\* a plan returned later in the day whose ranking holds two units of equal score
C6_Witness ==
    /\ PlanReturned
    /\ planResult[1].call.at > 0
    /\ planResult[1].call.today = 0
    /\ ReturnedPlan.sessions # <<>>
    /\ \E i, j \in DOMAIN planResult[1].ranking :
          /\ i < j
          /\ Priority2(planResult[1].ranking[i], planResult[1].call.target_exam)
                = Priority2(planResult[1].ranking[j], planResult[1].call.target_exam)

\* C7: a generate_plan call with hours_per_week <= 0 returns a plan with no
\* sessions and confidence 0, and raises nothing, with or without an exam.
C7_NonPositiveHours ==
    (planResult # <<>> /\ planResult[1].call.hours_per_week <= 0) =>
        /\ planResult[1].status = "ok"
        /\ ReturnedPlan.sessions = <<>>
        /\ ReturnedPlan.confidence_score = 0

\* C8: a generate_plan call for an exam dated today or earlier returns a plan
\* with no sessions and confidence 0, and raises nothing.
C8_NonPositiveHorizon ==
    (/\ planResult # <<>>
     /\ planResult[1].call.target_exam # <<>>
     /\ planResult[1].call.target_exam[1].date <= planResult[1].call.today) =>
        /\ planResult[1].status = "ok"
        /\ ReturnedPlan.sessions = <<>>
        /\ ReturnedPlan.confidence_score = 0

\* days_available of an observed generate_plan call
CallDays(call) ==
    IF call.target_exam # <<>>
    THEN Max(1, call.target_exam[1].date - call.today)
    ELSE DefaultHorizon

\* hours available of an observed call, in sevenths of a minute
CallAvailable7(call) == CallDays(call) * call.hours_per_week * 60

\* available / needed >= p / q, for needed > 0 minutes
RatioAtLeast(available7, needed, p, q) == q * available7 >= p * 7 * needed

\* the confidence buckets by the ratio available / needed
ConfidenceBucket(available7, needed) ==
    IF available7 = 0 THEN 0
    ELSE IF RatioAtLeast(available7, needed, 3, 2) THEN 95
    ELSE IF RatioAtLeast(available7, needed, 6, 5) THEN 85
    ELSE IF RatioAtLeast(available7, needed, 1, 1) THEN 70
    ELSE IF RatioAtLeast(available7, needed, 4, 5) THEN 50
    ELSE IF RatioAtLeast(available7, needed, 3, 5) THEN 30
    ELSE 10

\* C17: every generate_plan call returns a plan, also when no topic needs
\* coverage (hours needed 0), whose confidence is 0 when no hours are
\* available and otherwise the bucket of available / needed: 95, 85, 70, 50,
\* 30 or 10.
C17_ConfidenceTotal ==
    planResult # <<>> =>
        /\ planResult[1].status = "ok"
        /\ ReturnedPlan.confidence_score \in {0, 10, 30, 50, 70, 85, 95}
        /\ (CallAvailable7(planResult[1].call) = 0 \/ SumEstimated(TopicsToCover) > 0)
              => ReturnedPlan.confidence_score
                    = ConfidenceBucket(CallAvailable7(planResult[1].call),
                                       SumEstimated(TopicsToCover))


\* 30 if the topic is in the target exam's included topics
InclusionBonus(topic, exam) ==
    IF exam # <<>> /\ topic.id \in exam[1].topics_included THEN 30 ELSE 0

\* weight/100 * 2 + status_priority + bonus - order * 0.5, times 200
ScoreStated200(topic, exam) ==
    4 * topic.weight
    + 200 * StatusPriority(StatusOf(topic.id))
    + 200 * InclusionBonus(topic, exam)
    - 100 * topic.order

\* weight * 2 + status_priority + bonus - order * 0.5, times 2
ScoreByWeight2(topic, exam) ==
    4 * topic.weight
    + 2 * StatusPriority(StatusOf(topic.id))
    + 2 * InclusionBonus(topic, exam)
    - topic.order

\* C18 as stated: the ranking of a returned plan lists the topics to cover by
\* descending score weight/100 * 2 + status_priority + 30 if in the exam's
\* topics - order * 0.5.
C18_PriorityScoreStated ==
    PlanReturned =>
        /\ Range(planResult[1].ranking) = Range(TopicsToCover)
        /\ \A i, j \in DOMAIN planResult[1].ranking :
              i < j =>
                 ScoreStated200(planResult[1].ranking[i],
                                planResult[1].call.target_exam)
                   >= ScoreStated200(planResult[1].ranking[j],
                                     planResult[1].call.target_exam)

\* C18 (priority score): the ranking of a returned plan lists the topics to
\* cover by descending score weight * 2 + status_priority (rusty 50,
\* in_progress 40, new 30, learned 10, mastered 0) + 30 if the topic is in the
\* target exam's topics - order * 0.5: the weight counts as a percentage,
\* undivided.
C18_PriorityScore ==
    PlanReturned =>
        /\ Range(planResult[1].ranking) = Range(TopicsToCover)
        /\ \A i, j \in DOMAIN planResult[1].ranking :
              i < j =>
                 ScoreByWeight2(planResult[1].ranking[i],
                                planResult[1].call.target_exam)
                   >= ScoreByWeight2(planResult[1].ranking[j],
                                     planResult[1].call.target_exam)

\* two topics were ranked by their weights against the order their statuses
\* alone would give
C18_Witness ==
    /\ PlanReturned
    /\ Len(planResult[1].ranking) = 2
    /\ planResult[1].ranking[1].weight > planResult[1].ranking[2].weight
    /\ ScoreStated200(planResult[1].ranking[1], planResult[1].call.target_exam)
         < ScoreStated200(planResult[1].ranking[2],
                          planResult[1].call.target_exam)


\* position of the unit with this id in the ranking, 0 when it is not ranked
RankOf(ranking, unit_id) ==
    IF \E i \in DOMAIN ranking : ranking[i].id = unit_id
    THEN CHOOSE i \in DOMAIN ranking : ranking[i].id = unit_id
    ELSE 0

\* C19 (weight dominance before an exam): with the exam 3 days away and two
\* topics to cover weighted 80 and 20, the weight-80 topic is ranked strictly
\* before the weight-20 topic whatever their statuses (new, in_progress,
\* rusty), exam inclusion and order hints in 0..10, and no mastered topic is
\* ranked before either.
C19_WeightDominance ==
    (/\ PlanReturned
     /\ planResult[1].call.target_exam # <<>>
     /\ planResult[1].call.target_exam[1].date - planResult[1].call.today = 3) =>
        LET ranking == planResult[1].ranking
        IN  /\ RankOf(ranking, "u1") > 0
            /\ RankOf(ranking, "u2") > 0
            /\ RankOf(ranking, "u1") < RankOf(ranking, "u2")
            /\ \A i \in DOMAIN ranking :
                  StatusOf(ranking[i].id) = "mastered" =>
                      i > RankOf(ranking, "u2")

\* the weight-80 topic, new, last in the curriculum and outside the exam, was
\* ranked before the weight-20 topic, rusty, first and in the exam
C19_Witness ==
    /\ PlanReturned
    /\ planResult[1].ranking # <<>>
    /\ planResult[1].ranking[1] = Unit("u1", 80, 120, MaxOrder)
    /\ StatusOf("u1") = "new"
    /\ StatusOf("u2") = "rusty"
    /\ planResult[1].call.target_exam[1].topics_included = {"u2"}
    /\ Unit("u2", 20, 120, 0) \in Range(planResult[1].ranking)


\* get_due_items has returned
DueReturned == srsResult.op = "get_due_items"

\* whole days by which an item is overdue at time t (0 when it is not)
DaysOverdue(item, t) ==
    IF item.next_review = NoTime \/ item.next_review >= t THEN 0
    ELSE (t - item.next_review + TicksPerDay - 1) \div TicksPerDay

\* a comes no later than b by days overdue descending, then easiness ascending
QueueOrder(a, b, t) ==
    \/ DaysOverdue(a, t) > DaysOverdue(b, t)
    \/ /\ DaysOverdue(a, t) = DaysOverdue(b, t)
       /\ a.easiness_factor <= b.easiness_factor

\* C20 (due queue): for every limit >= 0, get_due_items(limit) returns the
\* first `limit` of the items with now >= next_review, sorted by days overdue
\* descending then easiness ascending: no item that is not yet due, no item
\* twice, min(limit, number of due items) items, in queue order, and no
\* returned item comes after an omitted due item in that order.
C20_DueQueue ==
    DueReturned =>
        LET t == srsResult.at
            due == srsResult.due
            AllDue == {item \in Range(items) : t >= item.next_review}
        IN  /\ Range(due) \subseteq AllDue
            /\ Cardinality(Range(due)) = Len(due)
            /\ Len(due) = Min(srsResult.limit, Cardinality(AllDue))
            /\ Len(due) <= srsResult.limit
            /\ \A i, j \in DOMAIN due : i < j => QueueOrder(due[i], due[j], t)
            /\ \A r \in Range(due), o \in AllDue \ Range(due) :
                  /\ QueueOrder(r, o, t)
                  /\ DaysOverdue(r, t) >= DaysOverdue(o, t)

\* with three items registered, one of them not yet due, a limit of 1 returned
\* the more overdue of the two due items although it was registered last
C20_Witness ==
    /\ DueReturned
    /\ srsResult.limit = 1
    /\ Len(items) = 3
    /\ \E item \in Range(items) : srsResult.at < item.next_review
    /\ Len(srsResult.due) = 1
    /\ \E o \in Range(items) :
          /\ srsResult.at >= o.next_review
          /\ o # srsResult.due[1]
          /\ DaysOverdue(srsResult.due[1], srsResult.at) > DaysOverdue(o, srsResult.at)
          /\ IndexOf(o.item_id) < IndexOf(srsResult.due[1].item_id)


\* the number of simulation sessions of the list dated d
SimulationsOn(sessions, d) ==
    Cardinality({i \in DOMAIN sessions :
                    /\ sessions[i].session_type = "simulate"
                    /\ sessions[i].date = d})

\* C26 (simulation sessions): a plan generated for an exam holds exactly one
\* simulation session dated exam date - o for each offset o of {3, 7, 14}
\* with o <= days_available and none for the other offsets; no simulation is
\* dated before today or on or after the exam date; the returned sessions
\* are sorted by date.
C26_Simulations ==
    (PlanReturned /\ planResult[1].call.target_exam # <<>>)
        => LET call == planResult[1].call
               exam_date == call.target_exam[1].date
               sessions == ReturnedPlan.sessions
           IN  /\ \A o \in {3, 7, 14} :
                     SimulationsOn(sessions, exam_date - o)
                         = IF o <= CallDays(call) THEN 1 ELSE 0
               /\ \A i \in DOMAIN sessions :
                     sessions[i].session_type = "simulate"
                         => /\ exam_date - sessions[i].date \in {3, 7, 14}
                            /\ sessions[i].date >= call.today
                            /\ sessions[i].date < exam_date
               /\ \A i, j \in DOMAIN sessions :
                     i < j => sessions[i].date <= sessions[j].date


(***************************************************************************)
(*                    Properties: adjusting the plan                       *)
(***************************************************************************)

\* the last adjust_plan call, observed before the clock moved on
AdjustReturned ==
    /\ adjustResult # <<>>
    /\ adjustResult[1].call.op = "adjust_plan"
    /\ adjustResult[1].call.at = now

\* the plan generate_plan yields now with the parameters of the event
FreshOutcome(call) ==
    LET args == HandlerArgs(call.adjustment_type, call.kwargs)
    IN  PlanOutcome(<<>>, args.hours, args.strategy)

\* the event's change is in the configuration: an added topic is a syllabus unit
EventApplied(call) ==
    (call.adjustment_type = "topic_added" /\ call.kwargs.topic # <<>>) =>
        call.kwargs.topic[1] \in Range(config.syllabus_units)

\* C11: whatever the adjustment type, and with or without a stored plan,
\* adjust_plan applies the event's change and returns the plan generate_plan
\* yields for the current state with the event's parameters, never the stored
\* plan as it was.
C11_FullRegeneration ==
    AdjustReturned =>
        /\ EventApplied(adjustResult[1].call)
        /\ adjustResult[1].status = FreshOutcome(adjustResult[1].call).status
        /\ adjustResult[1].plan = FreshOutcome(adjustResult[1].call).plan

\* minutes of the sessions of one topic that satisfy the test
RECURSIVE TopicMinutes(_, _, _)
TopicMinutes(sessions, topic_id, completed_only) ==
    IF sessions = <<>> THEN 0
    ELSE (IF /\ Head(sessions).topic_id = topic_id
             /\ (completed_only => Head(sessions).is_completed)
          THEN Head(sessions).duration_minutes ELSE 0)
         + TopicMinutes(Tail(sessions), topic_id, completed_only)

\* C12: when a plan is generated over a stored plan with completed sessions,
\* the minutes it plans for a topic are taken from the topic's estimated
\* minutes less the minutes of its completed sessions: completed time is not
\* planned again.
C12_CompletedNotReplanned ==
    [][(/\ current_plan # <<>>
        /\ planResult' # planResult
        /\ planResult' # <<>>
        /\ planResult'[1].status = "ok")
       => \A i \in DOMAIN TopicsToCover :
             TopicMinutes(planResult'[1].plan[1].sessions,
                          TopicsToCover[i].id, FALSE)
               <= TopicsToCover[i].estimated_minutes
                    - TopicMinutes(current_plan[1].sessions,
                                   TopicsToCover[i].id, TRUE)
      ]_vars

\* the position in config.exams of the planning target, config.next_exam
NextExamIndex ==
    CHOOSE i \in DOMAIN config.exams :
        /\ config.exams[i] = next_exam[1]
        /\ \A j \in 1..(i - 1) : config.exams[j] # next_exam[1]

\* C29 (exam-date change): adjust_plan(EXAM_DATE_CHANGED, new_date) on a
\* planner that holds a plan changes the date of config.next_exam, the
\* earliest exam not in the past, and of no other exam; past exams stay as
\* they are; the regenerated plan targets the exam at new_date.
C29_ExamDateTargets ==
    [][\A kwargs \in Kwargs("exam_date_changed") :
          (/\ current_plan # <<>>
           /\ next_exam # <<>>
           /\ kwargs.new_date # <<>>
           /\ adjust_plan("exam_date_changed", kwargs))
              => /\ config'.exams =
                       [config.exams EXCEPT
                           ![NextExamIndex].date = kwargs.new_date[1]]
                 /\ planResult'[1].call.target_exam =
                       <<[next_exam[1] EXCEPT !.date = kwargs.new_date[1]]>>]_vars


\* the budget minutes of the study days of an observed call's horizon
HorizonBudget(call) ==
    Cardinality({d \in call.today..(call.today + CallDays(call) - 1) :
                    IsStudyDay(d)})
        * DailyMinutes(call.hours_per_week)

\* C25 (plan coverage): when the study days of the horizon provide at least
\* the minutes the topics to cover need, every topic to cover gets sessions
\* that sum to its estimated minutes up to a remainder below the 15-minute
\* chunk: a day's leftover budget below 15 minutes does not take a topic out
\* of the queue, packing goes on the next study day.
C25_PlanCoverage ==
    (/\ PlanReturned
     /\ HorizonBudget(planResult[1].call)
            >= SumEstimated(planResult[1].ranking))
        => \A i \in DOMAIN planResult[1].ranking :
              LET unit == planResult[1].ranking[i]
                  planned == TopicMinutes(ReturnedPlan.sessions, unit.id, FALSE)
              IN  /\ planned <= unit.estimated_minutes
                  /\ unit.estimated_minutes - planned < MinChunk


(***************************************************************************)
(*                    Properties: prerequisite manager                     *)
(***************************************************************************)

\* the prerequisites of the topic last checked
Checked == Get(prerequisites, readinessResult[1].topic_id)

SomeMissing(prereqs, kinds) ==
    \E i \in DOMAIN prereqs :
        /\ prereqs[i].relationship_type \in kinds
        /\ get_topic_status(prereqs[i].source_topic) = "not_started"

SomePartial(prereqs) ==
    \E i \in DOMAIN prereqs :
        get_topic_status(prereqs[i].source_topic)
            \notin {"completed", "not_started"}

\* the level and confidence (in tenths) of the decision table
DecisionTable(prereqs) ==
    IF SomeMissing(prereqs, {"required"}) THEN <<"blocked", 2>>
    ELSE IF SomeMissing(prereqs, RelationshipTypes) THEN <<"not_ready", 4>>
    ELSE IF SomePartial(prereqs) THEN <<"mostly_ready", 7>>
    ELSE <<"ready", 10>>

\* C16 (readiness decision table): check_readiness returns blocked (0.2) iff
\* a required prerequisite is missing, otherwise not_ready (0.4) iff some
\* prerequisite is missing, otherwise mostly_ready (0.7) iff some prerequisite
\* is partial, otherwise ready, and every ready result has confidence 1.0.
C16_ReadinessTable ==
    readinessResult # <<>> =>
        <<readinessResult[1].readiness, readinessResult[1].confidence_score>>
            = DecisionTable(Checked)

\* a topic with a missing required prerequisite and a partial recommended one
\* was found blocked
C16_Witness ==
    /\ readinessResult # <<>>
    /\ readinessResult[1].readiness = "blocked"
    /\ readinessResult[1].prerequisites_partial # <<>>
    /\ \E i \in DOMAIN Checked :
          /\ Checked[i].relationship_type = "recommended"
          /\ get_topic_status(Checked[i].source_topic) = "in_progress"

(***************************************************************************)
(*                  Properties: recommendation engine                      *)
(***************************************************************************)

\* the recommendations made for the due items
ForDueItems(r) ==
    /\ r.recommendation_type = "review"
    /\ r.title \in {"Review Due", "Quick Review", "Complete Review Session"}

\* a new-topic, exercise, challenge or skill-gap recommendation
Exploration(r) ==
    \/ r.recommendation_type \in {"next_topic", "exercise", "challenge"}
    \/ r.title = "Review: weakest"

\* C23 (due reviews never starve): when at least one item is due, every
\* recommendation made for the due items has priority >= 0.85; in the list
\* get_recommendations returns, for any context, it stands before every
\* new-topic, exercise, challenge and skill-gap recommendation, and the cut
\* to the first ten never removes it: each one that fits the available time
\* is in the list.
C23_DueReviewsFirst ==
    (/\ recResult # <<>>
     /\ recResult[1].op = "get_recommendations"
     /\ engine.srs_due_items > 0)
        => LET returned == recResult[1].recommendations
               collected == Collected(recResult[1].available_minutes,
                                      recResult[1].context)
           IN  /\ \E i \in DOMAIN collected : ForDueItems(collected[i])
               /\ \A i \in DOMAIN collected :
                     ForDueItems(collected[i])
                         => /\ collected[i].priority >= 8500
                            /\ collected[i].estimated_minutes
                                   <= recResult[1].available_minutes
                                 => collected[i] \in Range(returned)
               /\ \A i, j \in DOMAIN returned :
                     (ForDueItems(returned[i]) /\ Exploration(returned[j]))
                         => i < j

\* with four items due, the general list opened with the due review, ahead
\* of the next topic, an exercise and two skill gaps
C23_Witness ==
    /\ recResult # <<>>
    /\ recResult[1].op = "get_recommendations"
    /\ recResult[1].context = "general"
    /\ engine.srs_due_items = 4
    /\ Len(recResult[1].recommendations) = 5
    /\ recResult[1].recommendations[1]
           = Recommendation("review", "Review Due", 9000, 12)
    /\ recResult[1].recommendations[2].title = "Learn"
    /\ recResult[1].recommendations[3].title = "Exercise"
    /\ recResult[1].recommendations[4].title = "Strengthen"
    /\ recResult[1].recommendations[5].title = "Strengthen"

=============================================================================
